---- MODULE Spec2Model ----
(***************************************************************************)
(* A model of o3skim: the Source/Model loading of src/o3skim/source.py and *)
(* src/o3skim/sources.py, the skim partition writer of source.py and the   *)
(* helpers of src/o3skim/utils.py (cd, return_on_failure, mergedicts).     *)
(*                                                                         *)
(* Python values are represented as follows.                               *)
(*   dict            a function whose domain is the set of keys            *)
(*   metadata value  Scalar(n) or Dict(d): a tagged record, so that        *)
(*                   isinstance(v, dict) is the test v.t = "d"             *)
(*   None / object   the sequences <<>> and <<x>>                          *)
(*   a name          the tuple of the parts that str.format joins          *)
(*   a directory     the sequence of the names from the root               *)
(*   a file          [dir |-> its directory, name |-> its name]            *)
(*   a time stamp    the pair <<year, record of that year>>                *)
(***************************************************************************)
EXTENDS Integers, Sequences, FiniteSets, TLC

VARIABLES
    config,          \* arguments of Source(name, metadata, **collections)
    disk,            \* path expression -> raw netCDF collection
    pc,              \* "new" before Source.__init__ has run, then "ready"
    _name,           \* Source._name                     (source.py)
    _metadata,       \* Source._metadata                 (source.py)
    _models,         \* Source._models, insertion ordered (source.py)
    Sources_models,  \* sources.Source._models            (sources.py)
    cwd,             \* the working directory of the process
    fs,              \* the files on disk: [path, content]
    ret,             \* what the last operation returned or raised
    stack,           \* the open utils.cd scopes, innermost last
    exc,             \* the error that is propagating, "none" if none
    left,            \* the utils.cd scope that was left last
    call,            \* the call made through return_on_failure
    log,             \* what logging.error has recorded
    d1, d2,          \* the arguments of utils.mergedicts
    merged,          \* d1 after mergedicts(d1, d2), None before the call
    args,            \* the arguments of the function that is called
    workers          \* the concurrent workers that skim, each in a utils.cd scope

vars == <<config, disk, pc, _name, _metadata, _models, Sources_models, cwd,
          fs, ret, stack, exc, left, call, log, d1, d2, merged, args, workers>>

----------------------------------------------------------------------------
(* Bounds of the model *)

MaxModels == 2     \* models in one configuration
MaxYears == 2      \* calendar years on a generated time axis
MaxPerYear == 2    \* records per calendar year on a generated time axis
MaxDepth == 2      \* nesting of utils.cd scopes
MaxLog == 2        \* calls made through one return_on_failure wrapper
MaxScalar == 2     \* scalar metadata values are 1..MaxScalar
MaxEntries == 2    \* keys (at both levels) of a generated metadata mapping
MaxLon == 3        \* longitudes of a raw variable
MaxValue == 2      \* data values are 0..MaxValue, or NaN

(* Constants of the program *)

StartYear == 2000  \* the first year of the test time axis
Periods == 25      \* the number of annual records of the test time axis
MantissaBits == 24 \* the binary digits of a single-precision mantissa

----------------------------------------------------------------------------
(* Python values *)

None == <<>>
Some(x) == <<x>>

EmptyDict == [k \in {} |-> 0]
Scalar(x) == [t |-> "s", s |-> x, d |-> EmptyDict]
Dict(f) == [t |-> "d", s |-> 0, d |-> f]
IsDict(x) == x.t = "d"

(* {**a, **b}: the keys of both, b's value where both have the key *)
DictUnpack(a, b) ==
    [k \in DOMAIN a \cup DOMAIN b |-> IF k \in DOMAIN b THEN b[k] ELSE a[k]]

(* d[key] = value on a dict *)
SetItem(d, key, value) ==
    [k \in DOMAIN d \cup {key} |-> IF k = key THEN value ELSE d[k]]

Raised(kind) == [raised |-> TRUE, kind |-> kind, value |-> None]
Returned(x) == [raised |-> FALSE, kind |-> "none", value |-> x]

(* raise kind(message) *)
RaisedWith(kind, message) == [raised |-> TRUE, kind |-> kind, value |-> message]

----------------------------------------------------------------------------
(* utils.py *)

RECURSIVE mergedicts(_, _)
RECURSIVE MergeKeys(_, _, _)

(* The loop body of mergedicts for every key of keys: d1 after the loop *)
MergeKeys(a, b, keys) ==
    IF keys = {} THEN a
    ELSE LET key == CHOOSE k \in keys : TRUE
             value == IF key \in DOMAIN a /\ IsDict(a[key]) /\ IsDict(b[key])
                      THEN Dict(mergedicts(a[key].d, b[key].d))
                      ELSE b[key]
         IN  MergeKeys(SetItem(a, key, value), b, keys \ {key})

(* A merge of the top level only, as {**d1, **d2} *)
mergedicts_shallow(a, b) ==
    [k \in DOMAIN a \cup DOMAIN b |-> IF k \in DOMAIN b THEN b[k] ELSE a[k]]

(* mergedicts works in place: this is d1 once it has returned *)
mergedicts(a, b) == MergeKeys(a, b, DOMAIN b)

(* An applicator with 'except Exception:', which lets an interruption *)
(* through                                                            *)
applicator_except_Exception(outcome, default) ==
    IF outcome.raised /\ outcome.kind # "KeyboardInterrupt"
    THEN [raised |-> FALSE, kind |-> "none", value |-> default]
    ELSE outcome

(* The applicator of return_on_failure(message, default): the bare except *)
(* catches every error, whatever its class                                *)
applicator(outcome, default) ==
    IF outcome.raised THEN Returned(default) ELSE Returned(outcome.value)

(* What the applicator logs: the message, once for every error caught *)
applicator_log(outcome, message, logged) ==
    IF outcome.raised THEN Append(logged, <<message, outcome.kind>>) ELSE logged

(* os.path.expanduser: a leading ~ becomes the home directory *)
Home == << <<"home">> >>
expanduser(dir) ==
    IF dir.root = "home" THEN [root |-> "abs", parts |-> Home \o dir.parts]
    ELSE dir

(* os.chdir(dir) from directory cur, dirs being the directories that exist *)
chdir(cur, dirs, dir) ==
    LET target == IF dir.root = "abs" THEN dir.parts ELSE cur \o dir.parts
    IN  IF target \in dirs THEN Returned(target)
        ELSE Raised("FileNotFoundError")

(* os.mkdir(name) from directory cur: the directories after it, or *)
(* FileExistsError where a directory or a file has that path       *)
mkdir(dirs, files, cur, name) ==
    LET target == IF name.root = "abs" THEN name.parts ELSE cur \o name.parts
    IN  IF \/ target \in dirs
           \/ \E f \in DOMAIN files : f.dir \o <<f.name>> = target
        THEN Raised("FileExistsError")
        ELSE Returned(dirs \cup {target})

(* os.path.isdir(name) from directory cur *)
isdir(dirs, cur, name) ==
    (IF name.root = "abs" THEN name.parts ELSE cur \o name.parts) \in dirs

(* os.makedirs(name, exist_ok=True) of a name of one part, from       *)
(* directory cur: os.mkdir and, where it raises, the error again      *)
(* unless os.path.isdir(name)                                         *)
makedirs(dirs, files, cur, name) ==
    LET made == mkdir(dirs, files, cur, name)
    IN  IF ~made.raised THEN made
        ELSE IF isdir(dirs, cur, name) THEN Returned(dirs)
        ELSE made

(* cd up to its yield: prevdir and newdir, or the error of os.chdir *)
cd_enter(cur, dirs, dir) ==
    LET prevdir == cur
        moved == chdir(cur, dirs, expanduser(dir))
    IN  IF moved.raised THEN moved
        ELSE Returned([prevdir |-> prevdir, newdir |-> moved.value])

(* A cd without try/finally: the directory is restored only when the *)
(* body ends normally                                                *)
cd_exit_no_finally(frame, cur, how) ==
    IF how = "normal" THEN frame.prevdir ELSE cur

(* A cd that does not go back to prevdir *)
cd_exit_stays(frame, cur, how) == cur

(* cd after its yield: the finally clause runs however the body was left *)
(* (how is "normal", "error" or "interrupt") and restores prevdir         *)
cd_exit(frame, cur, how) == frame.prevdir

----------------------------------------------------------------------------
(* The raw collections and the configuration *)

TCO3 == "tco3_zm"
VMRO3 == "vmro3_zm"
Variables == {TCO3, VMRO3}

Year(t) == t[1]

(* A time axis of n calendar years from start, r records in each *)
Axis(start, n, r) == (start .. start + n - 1) \X (1 .. r)

(* The time axis of src/o3skim/source.py:221 *)
TestAxis == Axis(StartYear, Periods, 1)

(* A dataset: its attrs, its data variables (name -> dims and attrs) and *)
(* its time index                                                       *)
RawAttrs == [k \in {"units", "history"} |-> Scalar(1)]

RawTCO3(time) ==
    [attrs |-> RawAttrs,
     vars |-> [v \in {"toz"} |->
                 [dims |-> {"longitude", "latitude", "time"}, attrs |-> RawAttrs]],
     time |-> time]

RawVMRO3(time) ==
    [attrs |-> RawAttrs,
     vars |-> [v \in {"o3"} |->
                 [dims |-> {"lon", "lat", "level", "time"}, attrs |-> RawAttrs]],
     time |-> time]

TCO3Paths == "tco3/*.nc"
VMRO3Paths == "vmro3/*.nc"
NoPaths == "none/*.nc"

(* The disk: what each path expression that matches files holds *)
Disk(tco3time, vmro3time) ==
    [p \in {TCO3Paths, VMRO3Paths} |->
        IF p = TCO3Paths THEN RawTCO3(tco3time) ELSE RawVMRO3(vmro3time)]

TCO3Coords == [lat |-> "latitude", lon |-> "longitude", time |-> "time"]
VMRO3Coords == [lat |-> "lat", lon |-> "lon", plev |-> "level", time |-> "time"]

(* The entry of one variable in a model's specification. Both spellings of *)
(* the coordinates key are given: source.py reads 'coordinates' and        *)
(* sources.py reads 'coordinades'.                                         *)
VarSpec(name, paths, coords, meta) ==
    [name |-> name, paths |-> paths, coordinates |-> coords,
     coordinades |-> coords, metadata |-> meta]

VarMeta == [k \in {"m"} |-> Scalar(1)]

(* None, a loadable entry, one whose paths match no file, and one whose *)
(* longitude coordinate is not in the collection                        *)
TCO3Good == Some(VarSpec("toz", TCO3Paths, TCO3Coords, VarMeta))
TCO3NoFiles == Some(VarSpec("toz", NoPaths, TCO3Coords, VarMeta))
VMRO3Good == Some(VarSpec("o3", VMRO3Paths, VMRO3Coords, VarMeta))
VMRO3NoLon ==
    Some(VarSpec("o3", VMRO3Paths, [VMRO3Coords EXCEPT !.lon = "x"], VarMeta))

TCO3Specs == {None, TCO3Good, TCO3NoFiles}
VMRO3Specs == {None, VMRO3Good, VMRO3NoLon}

(* The metadata mappings of the configurations *)
ExampleD1 ==
    [k \in {"a", "b"} |->
        IF k = "a" THEN Scalar(1) ELSE Dict([j \in {"x"} |-> Scalar(1)])]
ExampleD2 ==
    [k \in {"b", "c"} |->
        IF k = "c" THEN Scalar(3) ELSE Dict([j \in {"y"} |-> Scalar(2)])]
SourceMetas == {EmptyDict, ExampleD1}
ModelMetas == {EmptyDict, ExampleD2, [k \in {"a"} |-> Scalar(2)]}

AllNames == <<"ModelA", "ModelB", "ModelC", "ModelD">>
ModelNames == {AllNames[i] : i \in 1 .. MaxModels}

(* The collections of at most n models with specifications from specs, *)
(* the models named in the order of the configuration                  *)
Collections(specs, n) ==
    UNION {{[i \in 1 .. k |-> [name |-> AllNames[i], specifications |-> s[i]]] :
               s \in [1 .. k -> specs]} :
           k \in 0 .. n}

(* Configurations that load or fail to load each variable *)
LoadConfigs ==
    [name : {"Source"}, metadata : {ExampleD1},
     collections : Collections([tco3_zm : TCO3Specs, vmro3_zm : VMRO3Specs,
                                metadata : {ExampleD2}], MaxModels)]

(* Configurations of one model whose variables load: with any metadata, *)
(* and over any time axes                                               *)
MetaConfigs ==
    [name : {"Source"}, metadata : SourceMetas,
     collections : Collections([tco3_zm : {None, TCO3Good},
                                vmro3_zm : {VMRO3Good},
                                metadata : ModelMetas], 1)]
AxisConfigs ==
    [name : {"Source"}, metadata : {EmptyDict},
     collections : Collections([tco3_zm : {None, TCO3Good},
                                vmro3_zm : {None, VMRO3Good},
                                metadata : {EmptyDict}], 1)]

AxisStarts == {StartYear - 1, StartYear + 9}
Axes ==
    {TestAxis} \cup {Axis(y, n, r) : y \in AxisStarts, n \in 1 .. MaxYears,
                                     r \in 1 .. MaxPerYear}
ShortAxis == Axis(StartYear - 1, 2, 1)
Disks == {Disk(a, b) : a \in Axes, b \in {ShortAxis}}
           \cup {Disk(a, a) : a \in Axes}
ShortDisk == Disk(ShortAxis, ShortAxis)

(* The directories that exist when the program starts *)
DirNames == {<<"data">>, <<"output">>}
InitialDirs ==
    {<<>>, Home} \cup {Home \o <<n>> : n \in DirNames}
                 \cup {Home \o << <<"output">>, <<"data">> >>}
InitialCwd == Home \o << <<"output">> >>

----------------------------------------------------------------------------
(* xarray, as far as the program uses it *)

Bind(r, F(_)) == IF r.raised THEN r ELSE F(r.value)

(* d[key] *)
getitem(d, key) ==
    IF key \in DOMAIN d THEN Returned(d[key]) ELSE Raised("KeyError")

(* d.get(key, default) *)
get(d, key, default) == IF key \in DOMAIN d THEN d[key] ELSE default

(* xr.open_mfdataset(paths): an error when the paths match no file *)
open_mfdataset(dsk, paths) ==
    IF paths \in DOMAIN dsk THEN Returned(dsk[paths]) ELSE Raised("OSError")

Renamed(map, n) == IF n \in DOMAIN map THEN map[n] ELSE n

(* Dataset.rename(map): an error when a name is not in the dataset *)
rename(ds, map) ==
    LET names == DOMAIN ds.vars \cup UNION {ds.vars[v].dims : v \in DOMAIN ds.vars}
    IN  IF ~(DOMAIN map \subseteq names) THEN Raised("ValueError")
        ELSE Returned([ds EXCEPT !.vars =
                [v \in {Renamed(map, o) : o \in DOMAIN ds.vars} |->
                    LET o == CHOOSE o \in DOMAIN ds.vars : Renamed(map, o) = v
                    IN  [dims |-> {Renamed(map, x) : x \in ds.vars[o].dims},
                         attrs |-> ds.vars[o].attrs]]])

(* ds[var].to_dataset(): the one variable, without the dataset's attrs *)
select(ds, var) ==
    IF var \in DOMAIN ds.vars
    THEN Returned([attrs |-> EmptyDict,
                   vars |-> [v \in {var} |-> ds.vars[v]],
                   time |-> ds.time])
    ELSE Raised("KeyError")

(* Dataset.mean(dim): the dimension is reduced away; attrs are kept only *)
(* with keep_attrs                                                       *)
mean(ds, dim, keep_attrs) ==
    IF \E v \in DOMAIN ds.vars : dim \notin ds.vars[v].dims
    THEN Raised("ValueError")
    ELSE Returned([ds EXCEPT
            !.attrs = IF keep_attrs THEN @ ELSE EmptyDict,
            !.vars = [v \in DOMAIN ds.vars |->
                        [dims |-> ds.vars[v].dims \ {dim},
                         attrs |-> IF keep_attrs THEN ds.vars[v].attrs
                                   ELSE EmptyDict]]])

(* Dataset.merge(other): the variables of both over the union of the time *)
(* indexes; the attrs of the dataset merged into are kept                 *)
merge(ds, other) ==
    [attrs |-> ds.attrs,
     vars |-> [v \in DOMAIN ds.vars \cup DOMAIN other.vars |->
                 IF v \in DOMAIN ds.vars THEN ds.vars[v] ELSE other.vars[v]],
     time |-> ds.time \cup other.time]

(* bool(dataset): a dataset without data variables is false *)
Truthy(model) == model # None /\ DOMAIN model[1].vars # {}

(* The dict given to rename: the raw variable and coordinate names to the *)
(* canonical ones                                                         *)
RenameMap(var, name, coords, axes) ==
    [n \in {name} \cup {coords[a] : a \in axes} |->
        IF n = name THEN var ELSE CHOOSE a \in axes : coords[a] = n]

----------------------------------------------------------------------------
(* sources.py: Model and Source *)

(* A getter that keeps the longitude axis *)
get_tco3_zm_no_mean(dsk, tco3_zm) ==
    Bind(open_mfdataset(dsk, tco3_zm.paths), LAMBDA dataset :
    Bind(rename(dataset, RenameMap(TCO3, tco3_zm.name, tco3_zm.coordinades,
                                   {"time", "lat", "lon"})), LAMBDA renamed :
    select(renamed, TCO3)))

(* Model.__get_tco3_zm without its decorator: the dataset it assigns to *)
(* self._tco3_zm, or the error it raises                                *)
get_tco3_zm(dsk, tco3_zm) ==
    Bind(open_mfdataset(dsk, tco3_zm.paths), LAMBDA dataset :
    Bind(rename(dataset, RenameMap(TCO3, tco3_zm.name, tco3_zm.coordinades,
                                   {"time", "lat", "lon"})), LAMBDA renamed :
    Bind(select(renamed, TCO3), LAMBDA one :
    mean(one, "lon", FALSE))))

(* Model.__get_vmro3_zm without its decorator *)
get_vmro3_zm(dsk, vmro3_zm) ==
    Bind(open_mfdataset(dsk, vmro3_zm.paths), LAMBDA dataset :
    Bind(rename(dataset, RenameMap(VMRO3, vmro3_zm.name, vmro3_zm.coordinades,
                                   {"time", "plev", "lat", "lon"})), LAMBDA renamed :
    Bind(select(renamed, VMRO3), LAMBDA one :
    mean(one, "lon", FALSE))))

(* Model.__init__: the attributes of the object. Each getter runs through *)
(* its own return_on_failure applicator; an attribute is set only when    *)
(* its getter got as far as the assignment                                *)
Model(dsk, variables) ==
    LET tco3 == IF variables.tco3_zm # None
                THEN get_tco3_zm(dsk, variables.tco3_zm[1]) ELSE Raised("unset")
        call1 == IF variables.tco3_zm # None
                 THEN applicator(tco3, None) ELSE Returned(None)
        vmro3 == IF variables.vmro3_zm # None
                 THEN get_vmro3_zm(dsk, variables.vmro3_zm[1]) ELSE Raised("unset")
        call2 == IF variables.vmro3_zm # None
                 THEN applicator(vmro3, None) ELSE Returned(None)
        set == {a \in {"_tco3_zm"} : ~tco3.raised}
                 \cup {a \in {"_vmro3_zm"} : ~vmro3.raised}
    IN  IF call1.raised THEN call1
        ELSE IF call2.raised
             THEN call2
             ELSE Returned([a \in set |->
                     IF a = "_tco3_zm" THEN tco3.value ELSE vmro3.value])

(* What Model.__init__ adds to the log: the applicator of each getter *)
(* that is called logs the error it catches                          *)
Model_log(dsk, variables, logged) ==
    LET logged1 == IF variables.tco3_zm # None
                   THEN applicator_log(get_tco3_zm(dsk, variables.tco3_zm[1]),
                                       "Error when loading 'tco3_zm'", logged)
                   ELSE logged
    IN  IF variables.vmro3_zm # None
        THEN applicator_log(get_vmro3_zm(dsk, variables.vmro3_zm[1]),
                            "Error when loading 'vmro3_zm'", logged1)
        ELSE logged1

RECURSIVE SourcesLoop_log(_, _, _, _)
(* What the loop of sources.Source.__init__ adds to the log from entry i on *)
SourcesLoop_log(dsk, collections, i, logged) ==
    IF i > Len(collections) THEN logged
    ELSE SourcesLoop_log(dsk, collections, i + 1,
                         Model_log(dsk, collections[i].specifications, logged))

RECURSIVE SourcesLoop(_, _, _)
(* The loop of sources.Source.__init__ from entry i on: every model is kept *)
SourcesLoop(dsk, collections, i) ==
    IF i > Len(collections) THEN Returned(<<>>)
    ELSE Bind(Model(dsk, collections[i].specifications), LAMBDA model :
         Bind(SourcesLoop(dsk, collections, i + 1), LAMBDA rest :
         Returned(<<[name |-> collections[i].name, model |-> model]>> \o rest)))

(* utils.to_netcdf(dirname, name, dataset, groupby): utils.py defines no *)
(* to_netcdf, the attribute lookup fails                                *)
utils_to_netcdf(dirname, name, dataset, groupby) == Raised("AttributeError")

(* Model.skim(dirname, groupby) of sources.py *)
Model_skim(model, dirname, groupby) ==
    Bind(IF "_tco3_zm" \in DOMAIN model
         THEN utils_to_netcdf(dirname, TCO3, model["_tco3_zm"], groupby)
         ELSE Returned(None), LAMBDA done :
    IF "_vmro3_zm" \in DOMAIN model
    THEN utils_to_netcdf(dirname, VMRO3, model["_vmro3_zm"], groupby)
    ELSE Returned(None))

RECURSIVE Sources_skim_loop(_, _, _, _, _, _, _)
(* The loop of sources.Source.skim from model i on: the directories that *)
(* exist after it, and the error that ended it if one did                *)
Sources_skim_loop(these, sname, groupby, cur, dirs, files, i) ==
    IF i > Len(these) THEN Returned(dirs)
    ELSE LET dirname == [root |-> "cwd", parts |-> << <<sname, these[i].name>> >>]
             made == makedirs(dirs, files, cur, dirname)
             skimmed == Model_skim(these[i].model, dirname, groupby)
         IN  IF made.raised THEN RaisedWith(made.kind, dirs)
             ELSE IF skimmed.raised THEN RaisedWith(skimmed.kind, made.value)
             ELSE Sources_skim_loop(these, sname, groupby, cur, made.value,
                                    files, i + 1)

----------------------------------------------------------------------------
(* source.py: _load_model and Source *)

Whitelist == {"standard_name", "long_name", "units", "cell_methods", "bounds"}

Restrict(d, keys) == [k \in DOMAIN d \cap keys |-> d[k]]

(* Step 2 of the adapter contract: only whitelisted attributes are kept *)
whitelist(ds) ==
    [ds EXCEPT !.attrs = Restrict(@, Whitelist),
               !.vars = [v \in DOMAIN ds.vars |->
                           [dims |-> ds.vars[v].dims,
                            attrs |-> Restrict(ds.vars[v].attrs, Whitelist)]]]

(* standardization.standardize_tco3 / standardize_vmro3: the adapter *)
(* contract for the variable var                                     *)
standardize(var, dataset, variable, coordinates) ==
    Bind(rename(whitelist(dataset),
                RenameMap(var, variable, coordinates, DOMAIN coordinates)),
         LAMBDA renamed :
    Bind(select(renamed, var), LAMBDA one :
    mean(one, "lon", TRUE)))

(* One 'if tco3_zm:' / 'if vmro3_zm:' block of _load_model *)
load_variable(dsk, dataset, var, vspec) ==
    Bind(open_mfdataset(dsk, vspec.paths), LAMBDA load :
    Bind(standardize(var, load, vspec.name, vspec.coordinates),
         LAMBDA standardized :
    Returned([merge(dataset, standardized) EXCEPT
                !.vars[var].attrs = get(vspec, "metadata", EmptyDict)])))

(* _load_model without its decorator: both blocks run in one function, so *)
(* an error in either ends it                                             *)
_load_model_function(dsk, specifications) ==
    LET dataset == [attrs |-> specifications.metadata,
                    vars |-> EmptyDict, time |-> {}]
        first == IF specifications.tco3_zm # None
                 THEN load_variable(dsk, dataset, TCO3, specifications.tco3_zm[1])
                 ELSE Returned(dataset)
    IN  Bind(first, LAMBDA ds :
        Bind(IF specifications.vmro3_zm # None
             THEN load_variable(dsk, ds, VMRO3, specifications.vmro3_zm[1])
             ELSE Returned(ds), LAMBDA both :
        Returned(Some(both))))

(* _load_model without its decorator *)
_load_model_undecorated(dsk, specifications) ==
    _load_model_function(dsk, specifications)

(* _load_model as decorated: return_on_failure(..., default=None) *)
_load_model(dsk, specifications) ==
    applicator(_load_model_function(dsk, specifications), None)

(* What the decorated _load_model adds to the log *)
_load_model_log(dsk, specifications, logged) ==
    applicator_log(_load_model_function(dsk, specifications),
                   "Error when loading model", logged)

RECURSIVE SourceLoop_log(_, _, _, _)
(* What the loop of Source.__init__ adds to the log from entry i on *)
SourceLoop_log(dsk, collections, i, logged) ==
    IF i > Len(collections) THEN logged
    ELSE SourceLoop_log(dsk, collections, i + 1,
                        _load_model_log(dsk, collections[i].specifications,
                                        logged))

RECURSIVE SourceLoop(_, _, _)
(* The loop of Source.__init__ from entry i on: a model is kept if it is *)
(* true                                                                  *)
SourceLoop(dsk, collections, i) ==
    IF i > Len(collections) THEN Returned(<<>>)
    ELSE Bind(_load_model(dsk, collections[i].specifications), LAMBDA model :
         Bind(SourceLoop(dsk, collections, i + 1), LAMBDA rest :
         Returned((IF Truthy(model)
                   THEN <<[name |-> collections[i].name, model |-> model[1]]>>
                   ELSE <<>>) \o rest)))

(* Source.models *)
models == [n \in 1 .. Len(_models) |-> _models[n].name]

(* A lookup that answers an empty model for a name that is not loaded *)
getitem_model_get(these, model_name) ==
    IF \E i \in 1 .. Len(these) : these[i].name = model_name
    THEN Returned(these[CHOOSE i \in 1 .. Len(these) :
                            these[i].name = model_name].model)
    ELSE Returned([attrs |-> EmptyDict, vars |-> EmptyDict, time |-> {}])

(* Source.__getitem__ *)
getitem_model(these, model_name) ==
    IF \E i \in 1 .. Len(these) : these[i].name = model_name
    THEN Returned(these[CHOOSE i \in 1 .. Len(these) :
                            these[i].name = model_name].model)
    ELSE Raised("KeyError")

----------------------------------------------------------------------------
(* The model accessor of extended_xarray *)

(* model.skim(): the reduced dataset, without a longitude axis *)
model_skim(ds) ==
    [ds EXCEPT !.vars = [v \in DOMAIN ds.vars |->
                           [dims |-> ds.vars[v].dims \ {"lon"},
                            attrs |-> ds.vars[v].attrs]]]

(* model.tco3 / model.vmro3: the dataset of the one variable, false when *)
(* the model does not hold it                                            *)
model_var(ds, var) ==
    [ds EXCEPT !.vars = [v \in DOMAIN ds.vars \cap {var} |-> ds.vars[v]]]

(* model.metadata: the attrs of the model and, under the name of each *)
(* variable, the attrs of that variable                               *)
model_metadata(ds) ==
    DictUnpack(ds.attrs, [v \in DOMAIN ds.vars |-> Dict(ds.vars[v].attrs)])

(* The numbers of a set in ascending order *)
Sorted(S) ==
    [n \in 1 .. Cardinality(S) |->
        CHOOSE x \in S : Cardinality({y \in S : y < x}) = n - 1]

(* The label of a time stamp: its calendar year, or the start of its *)
(* decade, year - year mod 10                                         *)
delta_map(by, t) ==
    IF by = "decade" THEN Year(t) - (Year(t) % 10) ELSE Year(t)

(* The groups of a dataset by the label of each time stamp, in ascending *)
(* order of label                                                        *)
model_groupby(ds, by) ==
    LET labels == Sorted({delta_map(by, t) : t \in ds.time})
    IN  [i \in 1 .. Len(labels) |->
            <<Some(labels[i]),
              [ds EXCEPT !.time = {t \in ds.time :
                                     delta_map(by, t) = labels[i]}]>>]

(* model.groupby_year() *)
groupby_year(ds) == model_groupby(ds, "year")

(* model.groupby_decade() *)
groupby_decade(ds) == model_groupby(ds, "decade")

----------------------------------------------------------------------------
(* source.py: _skim and Source.skim *)

(* Decade files named as year files are *)
tco3_path_decade_as_year(delta, y) ==
    IF delta = "year" \/ delta = "decade" THEN <<"tco3_zm", y[1], y[1] + 1>>
    ELSE <<"tco3_zm">>

(* The three definitions of tco3_path and of vmro3_path in _skim *)
tco3_path(delta, y) ==
    IF delta = "year" THEN <<"tco3_zm", y[1], y[1] + 1>>
    ELSE IF delta = "decade" THEN <<"tco3_zm", y[1], y[1] + 10>>
    ELSE <<"tco3_zm">>

vmro3_path(delta, y) ==
    IF delta = "year" THEN <<"vmro3_zm", y[1], y[1] + 1>>
    ELSE IF delta = "decade" THEN <<"vmro3_zm", y[1], y[1] + 10>>
    ELSE <<"vmro3_zm">>

(* What a netCDF file holds: one variable over its slice of the time axis *)
NetCDF(ds, var) ==
    [kind |-> "nc", var |-> var, dims |-> ds.vars[var].dims,
     time |-> ds.time, meta |-> EmptyDict]

(* What metadata.yaml holds *)
Yaml(metadata) ==
    [kind |-> "yaml", var |-> "", dims |-> {}, time |-> {}, meta |-> metadata]

(* What a file holds that was created and never written to the end *)
Partial ==
    [kind |-> "partial", var |-> "", dims |-> {}, time |-> {}, meta |-> EmptyDict]

(* Every path can be opened for writing *)
open_never_fails(dirs, cur, name) == FALSE

(* Opening a path for writing fails where a directory has that name *)
open_fails(dirs, cur, name) == cur \o <<name>> \in dirs

(* xr.save_mfdataset(datasets, paths) in directory cur: files with every *)
(* dataset written to its path, a later one over an earlier one of the   *)
(* same path. The files are created in the order of paths; where one    *)
(* cannot be created the error leaves the call, with the files created  *)
(* before it left unfinished                                            *)
save_mfdataset(files, dirs, cur, datasets, paths) ==
    LET File(n) == [dir |-> cur, name |-> paths[n]]
        Last(f) == CHOOSE n \in DOMAIN paths :
                      /\ File(n) = f
                      /\ \A o \in DOMAIN paths : File(o) = f => o <= n
        failing == {n \in DOMAIN paths : open_fails(dirs, cur, paths[n])}
        created == {File(n) : n \in {o \in DOMAIN paths :
                                        \A b \in failing : o < b}}
    IN  IF failing = {}
        THEN Returned([f \in DOMAIN files \cup created |->
                         IF f \in created THEN datasets[Last(f)]
                         ELSE files[f]])
        ELSE RaisedWith("PermissionError",
                        [f \in DOMAIN files \cup created |->
                            IF f \in created THEN Partial ELSE files[f]])

(* What a file holds that open(file_name, 'w+') has made or cut to *)
(* nothing                                                        *)
Empty ==
    [kind |-> "empty", var |-> "", dims |-> {}, time |-> {}, meta |-> EmptyDict]

(* The decimal digits of a number *)
RECURSIVE digits(_)
digits(n) == IF n < 10 THEN 1 ELSE 1 + digits(n \div 10)

(* The characters of the block-style text yaml.dump writes for the *)
(* entries of a mapping at an indentation: 'key: 1', 'key: {}', or *)
(* 'key:' over the indented lines of a mapping, a line each        *)
RECURSIVE yaml_lines(_, _)
yaml_lines(d, indent) ==
    IF DOMAIN d = {} THEN 0
    ELSE LET k == CHOOSE key \in DOMAIN d : TRUE
         IN  (IF ~IsDict(d[k]) THEN indent + Len(k) + 2 + digits(d[k].s) + 1
              ELSE IF DOMAIN d[k].d = {} THEN indent + Len(k) + 5
              ELSE indent + Len(k) + 2 + yaml_lines(d[k].d, indent + 2))
             + yaml_lines([j \in DOMAIN d \ {k} |-> d[j]], indent)

(* The characters a file holds *)
RECURSIVE length(_)
length(content) ==
    IF content.kind = "yaml"
    THEN IF content.meta = EmptyDict THEN 3 ELSE yaml_lines(content.meta, 0)
    ELSE IF content.kind = "over"
    THEN length(content.meta.rest)
    ELSE 0

(* What a file holds when a text was written from its start over a *)
(* longer content: the text and, after it, the rest of the content *)
Over(metadata, content) ==
    [kind |-> "over", var |-> "", dims |-> {}, time |-> {},
     meta |-> [text |-> metadata, rest |-> content]]

(* open(file_name, 'w+') in directory cur: the file is made, or cut to *)
(* nothing where it is there                                           *)
save_open(files, dirs, cur, file_name) ==
    IF open_fails(dirs, cur, file_name)
    THEN RaisedWith("IsADirectoryError", files)
    ELSE Returned(SetItem(files, [dir |-> cur, name |-> file_name], Empty))

(* yaml.dump(metadata, ymlfile): the text goes to the start of the file *)
(* that was opened, over what the file holds by then                    *)
yaml_dump(files, ymlfile, metadata) ==
    SetItem(files, ymlfile,
            IF /\ files[ymlfile] # Empty
               /\ length(files[ymlfile]) > length(Yaml(metadata))
            THEN Over(metadata, files[ymlfile])
            ELSE Yaml(metadata))

(* utils.save(file_name, metadata) in directory cur *)
save(files, dirs, cur, file_name, metadata) ==
    LET opened == save_open(files, dirs, cur, file_name)
    IN  IF opened.raised THEN opened
        ELSE Returned(yaml_dump(opened.value,
                                [dir |-> cur, name |-> file_name], metadata))

(* The sidecar is saved whatever the metadata is *)
if_metadata_always(metadata) == TRUE

(* 'if metadata:' in _skim: None and {} are false *)
if_metadata(metadata) == metadata # None /\ metadata # EmptyDict

(* The groups _skim makes of the model: <<year, dataset>> pairs *)
skim_groups(model, delta) ==
    LET skimmed == model_skim(model)
    IN  IF delta = "year" THEN groupby_year(skimmed)
        ELSE IF delta = "decade" THEN groupby_decade(skimmed)
        ELSE << <<None, skimmed>> >>

(* 'if skimmed.model.tco3:' / 'if skimmed.model.vmro3:' *)
skim_holds(model, var) == DOMAIN model_var(model_skim(model), var).vars # {}

(* The datasets and the paths _skim hands to xr.save_mfdataset for var *)
skim_datasets(groups, var) ==
    [i \in 1 .. Len(groups) |-> NetCDF(groups[i][2], var)]

skim_paths(groups, delta, var) ==
    [i \in 1 .. Len(groups) |->
        IF var = TCO3 THEN tco3_path(delta, groups[i][1])
        ELSE vmro3_path(delta, groups[i][1])]

(* 'if skimmed.model.tco3:' and the xr.save_mfdataset under it, in *)
(* directory cur                                                   *)
skim_save_tco3(files, dirs, cur, model, delta) ==
    LET groups == skim_groups(model, delta)
    IN  IF skim_holds(model, TCO3)
        THEN save_mfdataset(files, dirs, cur, skim_datasets(groups, TCO3),
                            skim_paths(groups, delta, TCO3))
        ELSE Returned(files)

(* 'if skimmed.model.vmro3:' and the xr.save_mfdataset under it *)
skim_save_vmro3(files, dirs, cur, model, delta) ==
    LET groups == skim_groups(model, delta)
    IN  IF skim_holds(model, VMRO3)
        THEN save_mfdataset(files, dirs, cur, skim_datasets(groups, VMRO3),
                            skim_paths(groups, delta, VMRO3))
        ELSE Returned(files)

(* One path of xr.save_mfdataset: the path is resolved in directory cur *)
(* and its file created, to be written when every path has its file    *)
to_netcdf_open(files, dirs, cur, path) ==
    IF open_fails(dirs, cur, path) THEN RaisedWith("PermissionError", files)
    ELSE Returned(SetItem(files, [dir |-> cur, name |-> path], Partial))

(* The end of xr.save_mfdataset: every dataset is written to the file *)
(* created for it, a later one over an earlier one of the same file   *)
save_mfdataset_sync(files, opened, datasets) ==
    LET Last(f) == CHOOSE n \in DOMAIN opened :
                      /\ opened[n] = f
                      /\ \A o \in DOMAIN opened : opened[o] = f => o <= n
        created == {opened[n] : n \in DOMAIN opened}
    IN  [f \in DOMAIN files \cup created |->
            IF f \in created THEN datasets[Last(f)] ELSE files[f]]

(* 'if metadata:' and the utils.save under it *)
skim_save_metadata(files, dirs, cur, metadata) ==
    IF if_metadata(metadata)
    THEN save(files, dirs, cur, <<"metadata.yaml">>, metadata)
    ELSE Returned(files)

(* _skim in directory cur: the files it writes, with what each holds, and *)
(* the error that ended it if one did                                    *)
_skim(dirs, cur, model, delta, metadata) ==
    LET saved1 == skim_save_tco3(EmptyDict, dirs, cur, model, delta)
        saved2 == IF saved1.raised THEN saved1
                  ELSE skim_save_vmro3(saved1.value, dirs, cur, model, delta)
    IN  IF saved2.raised THEN saved2
        ELSE skim_save_metadata(saved2.value, dirs, cur, metadata)

(* The metadata Source.skim hands to _skim: {**source, **model} *)
skim_metadata(source_md, model_md) == DictUnpack(source_md, model_md)

(* The source metadata is completed in place by the model metadata *)
skim_source_metadata_merged(source_md, model_md) ==
    mergedicts(source_md, model_md)

(* What self._metadata holds after the unpacking: {**a, **b} builds a new *)
(* dict and writes to neither a nor b                                    *)
skim_source_metadata(source_md, model_md) == source_md

RECURSIVE skim(_, _, _, _, _)
(* Source.skim(groupby) from model i on: the working directory, the       *)
(* directories and the files after it, the files it has written and what  *)
(* self._metadata holds                                                   *)
skim(these, name, groupby, state, i) ==
    IF i > Len(these) \/ state.raised THEN state
    ELSE LET dirname == [root |-> "cwd", parts |-> << <<name, these[i].name>> >>]
             made == makedirs(state.dirs, state.files, state.cwd, dirname)
             dirs == made.value
             entered == cd_enter(state.cwd, dirs, dirname)
             source_metadata == state.metadata
             model == getitem_model(these, these[i].name).value
             wrote == _skim(dirs, entered.value.newdir, model, groupby,
                            skim_metadata(source_metadata, model_metadata(model)))
         IN  IF made.raised
             THEN [state EXCEPT !.raised = TRUE, !.kind = made.kind]
             ELSE
             skim(these, name, groupby,
                  [cwd |-> cd_exit(entered.value, entered.value.newdir,
                                   IF wrote.raised THEN "error" ELSE "normal"),
                   dirs |-> dirs,
                   files |-> DictUnpack(state.files, wrote.value),
                   written |-> state.written \cup DOMAIN wrote.value,
                   raised |-> wrote.raised,
                   kind |-> wrote.kind,
                   metadata |-> skim_source_metadata(source_metadata,
                                                     model_metadata(model))],
                  i + 1)

----------------------------------------------------------------------------
(* The Source of source.py and the Source of sources.py, built from one *)
(* configuration and used                                               *)

Result(op, arg, raised, kind, written) ==
    [op |-> op, arg |-> arg, raised |-> raised, kind |-> kind,
     written |-> written]

UtilsIdle ==
    /\ stack = <<>> /\ exc = "none" /\ left = None
    /\ call = None /\ log = <<>>
    /\ d1 = EmptyDict /\ d2 = EmptyDict /\ merged = None
    /\ args = None /\ workers = <<>>

Init ==
    /\ \/ config \in LoadConfigs \cup MetaConfigs /\ disk = ShortDisk
       \/ config \in AxisConfigs /\ disk \in Disks
    /\ pc = "new"
    /\ _name = "" /\ _metadata = EmptyDict /\ _models = <<>>
    /\ Sources_models = None
    /\ cwd = InitialCwd
    /\ fs = [dirs |-> InitialDirs, files |-> EmptyDict]
    /\ ret = Result("none", "", FALSE, "none", {})
    /\ UtilsIdle

(* Source(name, metadata, **collections) of source.py *)
Source_init ==
    /\ pc = "new"
    /\ LET loaded == SourceLoop(disk, config.collections, 1)
       IN  /\ _name' = config.name
           /\ _metadata' = config.metadata
           /\ _models' = IF loaded.raised THEN <<>> ELSE loaded.value
           /\ pc' = IF loaded.raised THEN "failed" ELSE "ready"
           /\ ret' = Result("init", "", loaded.raised, loaded.kind, {})
    /\ log' = SourceLoop_log(disk, config.collections, 1, log)
    /\ UNCHANGED <<args, workers, config, disk, Sources_models, cwd, fs, stack, exc, left,
                   call, d1, d2, merged>>

(* Source(sname, collections) of sources.py *)
Sources_init ==
    /\ Sources_models = None
    /\ LET loaded == SourcesLoop(disk, config.collections, 1)
       IN  /\ ~loaded.raised
           /\ Sources_models' = Some(loaded.value)
    /\ log' = SourcesLoop_log(disk, config.collections, 1, log)
    /\ UNCHANGED <<args, workers, config, disk, pc, _name, _metadata, _models, cwd, fs, ret,
                   stack, exc, left, call, d1, d2, merged>>

(* Source.skim(groupby) of sources.py *)
Sources_skim(groupby) ==
    /\ Sources_models # None
    /\ LET after == Sources_skim_loop(Sources_models[1], config.name, groupby,
                                      cwd, fs.dirs, fs.files, 1)
       IN  /\ fs' = [fs EXCEPT !.dirs = after.value]
           /\ ret' = Result("sources_skim", groupby, after.raised, after.kind, {})
    /\ UNCHANGED <<args, workers, config, disk, pc, _name, _metadata, _models,
                   Sources_models, cwd, stack, exc, left, call, log, d1, d2,
                   merged>>

(* source[model_name] *)
GetItem(model_name) ==
    /\ pc = "ready"
    /\ LET found == getitem_model(_models, model_name)
       IN  ret' = Result("getitem", model_name, found.raised, found.kind, {})
    /\ UNCHANGED <<args, workers, config, disk, pc, _name, _metadata, _models, Sources_models,
                   cwd, fs, stack, exc, left, call, log, d1, d2, merged>>

(* source.skim(groupby) *)
Skim(groupby) ==
    /\ pc = "ready"
    /\ LET before == [cwd |-> cwd, dirs |-> fs.dirs, files |-> fs.files,
                      written |-> {}, raised |-> FALSE, kind |-> "none",
                      metadata |-> _metadata]
           after == skim(_models, _name, groupby, before, 1)
       IN  /\ cwd' = after.cwd
           /\ fs' = [dirs |-> after.dirs, files |-> after.files]
           /\ _metadata' = after.metadata
           /\ ret' = Result("skim", groupby, after.raised, after.kind,
                            after.written)
    /\ UNCHANGED <<args, workers, config, disk, pc, _name, _models,
                   Sources_models, stack, exc, left, call, log, d1, d2, merged>>

GroupBys == {"none", "year", "decade"}

Next ==
    \/ Source_init
    \/ Sources_init
    \/ \E model_name \in ModelNames : GetItem(model_name)
    \/ \E groupby \in GroupBys : Skim(groupby)
    \/ \E groupby \in GroupBys : Sources_skim(groupby)

Spec == Init /\ [][Next]_vars

----------------------------------------------------------------------------
(* _skim called on a model in the working directory, as the tests of *)
(* source.py call it                                                 *)

(* TestsModel.model(): a dataset with the variables named, over lon, lat, *)
(* (plev,) time                                                           *)
TestsModel(names, time) ==
    [attrs |-> [k \in {"description"} |-> Scalar(1)],
     vars |-> [v \in names |->
                 [dims |-> IF v = VMRO3 THEN {"lon", "lat", "plev", "time"}
                           ELSE {"lon", "lat", "time"},
                  attrs |-> EmptyDict]],
     time |-> time]

SkimModels ==
    {TestsModel(names, time) : names \in (SUBSET Variables) \ {{}},
                               time \in Axes}

(* The metadata argument of _skim: None or {} (one value here, both are *)
(* false in 'if metadata:') and mappings that hold a key                *)
SkimMetadatas == {None, EmptyDict, ExampleD1, ExampleD2}

InitSkim ==
    /\ config = None /\ disk = EmptyDict
    /\ pc = "_skim"
    /\ _name = "" /\ _metadata = EmptyDict
    /\ \E model \in SkimModels : _models = <<[name |-> "", model |-> model]>>
    /\ Sources_models = None
    /\ cwd = InitialCwd
    /\ fs = [dirs |-> InitialDirs, files |-> EmptyDict]
    /\ ret = Result("none", "", FALSE, "none", {})
    /\ UtilsIdle

(* _skim(model, delta, metadata) *)
SkimModel(delta, metadata) ==
    /\ pc = "_skim"
    /\ LET wrote == _skim(fs.dirs, cwd, _models[1].model, delta, metadata)
       IN  /\ fs' = [fs EXCEPT !.files = DictUnpack(fs.files, wrote.value)]
           /\ ret' = Result("_skim", [delta |-> delta, metadata |-> metadata],
                            wrote.raised, wrote.kind, DOMAIN wrote.value)
    /\ UNCHANGED <<args, workers, config, disk, pc, _name, _metadata, _models, Sources_models,
                   cwd, stack, exc, left, call, log, d1, d2, merged>>

NextSkim ==
    \E delta \in GroupBys, metadata \in SkimMetadatas : SkimModel(delta, metadata)

SpecSkim == InitSkim /\ [][NextSkim]_vars

----------------------------------------------------------------------------
(* Source.skim where a file of one model cannot be created *)

(* Configurations whose models all load, with and without metadata *)
WriteConfigs ==
    [name : {"Source"}, metadata : SourceMetas,
     collections : Collections([tco3_zm : {None, TCO3Good},
                                vmro3_zm : {VMRO3Good},
                                metadata : {EmptyDict}], MaxModels)]

(* The names of output files in whose place a directory may stand *)
ObstacleNames ==
    {<<TCO3>>, <<VMRO3>>, <<"metadata.yaml">>,
     <<VMRO3, StartYear, StartYear + 1>>, <<TCO3, StartYear - 10, StartYear>>}

(* No obstacle, or the output directory of one model with a directory in *)
(* it that has the name of an output file                                *)
Obstacles ==
    {{}} \cup
    {{InitialCwd \o << <<"Source", model_name>> >>,
      InitialCwd \o << <<"Source", model_name>>, file_name >>} :
        model_name \in ModelNames, file_name \in ObstacleNames}

InitWrite ==
    /\ config \in WriteConfigs /\ disk = ShortDisk
    /\ pc = "new"
    /\ _name = "" /\ _metadata = EmptyDict /\ _models = <<>>
    /\ Sources_models = None
    /\ cwd = InitialCwd
    /\ \E obstacle \in Obstacles :
          fs = [dirs |-> InitialDirs \cup obstacle, files |-> EmptyDict]
    /\ ret = Result("none", "", FALSE, "none", {})
    /\ UtilsIdle

NextWrite ==
    \/ Source_init
    \/ \E groupby \in GroupBys : Skim(groupby)

SpecWrite == InitWrite /\ [][NextWrite]_vars

----------------------------------------------------------------------------
(* utils.cd: scopes entered, nested and left by every path *)

CdTargets ==
    {[root |-> "cwd", parts |-> <<n>>] : n \in DirNames}
        \cup {[root |-> "home", parts |-> <<>>]}

ErrorKinds == {"OSError", "ValueError", "KeyError", "KeyboardInterrupt"}

BodyErrors == {"ValueError", "KeyboardInterrupt"}

How(e) ==
    IF e = "none" THEN "normal"
    ELSE IF e = "KeyboardInterrupt" THEN "interrupt" ELSE "error"

MainIdle ==
    /\ config = [name |-> "", metadata |-> EmptyDict, collections |-> <<>>]
    /\ disk = ShortDisk
    /\ pc = "utils"
    /\ _name = "" /\ _metadata = EmptyDict /\ _models = <<>>
    /\ Sources_models = None
    /\ cwd = InitialCwd
    /\ fs = [dirs |-> InitialDirs, files |-> EmptyDict]
    /\ ret = Result("none", "", FALSE, "none", {})

InitCd == MainIdle /\ UtilsIdle

(* with utils.cd(dir): up to the yield. An error of os.chdir is raised *)
(* where the with statement stands, before any scope is open           *)
CdEnter(dir) ==
    /\ exc = "none"
    /\ Len(stack) < MaxDepth
    /\ LET entered == cd_enter(cwd, fs.dirs, dir)
       IN  IF entered.raised
           THEN /\ exc' = entered.kind
                /\ UNCHANGED <<cwd, stack>>
           ELSE /\ cwd' = entered.value.newdir
                /\ stack' = Append(stack, [prevdir |-> entered.value.prevdir,
                                           newdir |-> entered.value.newdir,
                                           entry |-> cwd])
                /\ exc' = exc
    /\ UNCHANGED <<args, workers, config, disk, pc, _name, _metadata, _models, Sources_models,
                   fs, ret, left, call, log, d1, d2, merged>>

(* The body of the innermost scope changes the directory itself *)
BodyChdir(dir) ==
    /\ exc = "none"
    /\ stack # <<>>
    /\ LET moved == chdir(cwd, fs.dirs, expanduser(dir))
       IN  IF moved.raised
           THEN exc' = moved.kind /\ cwd' = cwd
           ELSE exc' = exc /\ cwd' = moved.value
    /\ UNCHANGED <<args, workers, config, disk, pc, _name, _metadata, _models, Sources_models,
                   fs, ret, stack, left, call, log, d1, d2, merged>>

(* The body of the innermost scope raises, or the process is interrupted *)
BodyRaise(kind) ==
    /\ exc = "none"
    /\ stack # <<>>
    /\ exc' = kind
    /\ UNCHANGED <<args, workers, config, disk, pc, _name, _metadata, _models, Sources_models,
                   cwd, fs, ret, stack, left, call, log, d1, d2, merged>>

(* The innermost scope is left: after its body, or by the error that is *)
(* propagating, which goes on propagating                               *)
CdExit ==
    /\ stack # <<>>
    /\ LET frame == stack[Len(stack)]
       IN  /\ cwd' = cd_exit(frame, cwd, How(exc))
           /\ left' = Some([entry |-> frame.entry, now |-> cwd',
                            moved |-> cwd' # cwd, how |-> How(exc),
                            depth |-> Len(stack)])
    /\ stack' = SubSeq(stack, 1, Len(stack) - 1)
    /\ UNCHANGED <<args, workers, config, disk, pc, _name, _metadata, _models, Sources_models,
                   fs, ret, exc, call, log, d1, d2, merged>>

(* An except clause around the with statement handles the error *)
Catch ==
    /\ exc # "none"
    /\ exc' = "none"
    /\ UNCHANGED <<args, workers, config, disk, pc, _name, _metadata, _models, Sources_models,
                   cwd, fs, ret, stack, left, call, log, d1, d2, merged>>

NextCd ==
    \/ \E dir \in CdTargets : CdEnter(dir)
    \/ \E dir \in CdTargets : BodyChdir(dir)
    \/ \E kind \in BodyErrors : BodyRaise(kind)
    \/ CdExit
    \/ Catch

SpecCd == InitCd /\ [][NextCd]_vars

----------------------------------------------------------------------------
(* utils.return_on_failure: calls through one decorated function *)

Messages == {"Error when loading model", "Error when loading 'tco3_zm'"}
Values == {None} \cup {Some(n) : n \in 1 .. MaxScalar}
Outcomes == {Returned(v) : v \in Values} \cup {Raised(k) : k \in ErrorKinds}

(* return_on_failure(message, default)(function)(): function ends as *)
(* outcome says                                                      *)
Call(message, default, outcome) ==
    /\ Len(log) < MaxLog
    /\ call' = Some([message |-> message, default |-> default,
                     outcome |-> outcome,
                     result |-> applicator(outcome, default),
                     logged |-> log])
    /\ log' = applicator_log(outcome, message, log)
    /\ UNCHANGED <<args, workers, config, disk, pc, _name, _metadata, _models, Sources_models,
                   cwd, fs, ret, stack, exc, left, d1, d2, merged>>

NextWrap ==
    \E message \in Messages, default \in Values, outcome \in Outcomes :
        Call(message, default, outcome)

SpecWrap == InitCd /\ [][NextWrap]_vars

----------------------------------------------------------------------------
(* utils.mergedicts on metadata mappings of two levels *)

TopKeys == {"a", "b", "c"}
SubKeys == {"x", "y"}
Scalars == {Scalar(n) : n \in 1 .. MaxScalar}
SubDicts == UNION {[S -> Scalars] : S \in SUBSET SubKeys}
MetaValues == Scalars \cup {Dict(f) : f \in SubDicts}

RECURSIVE Entries(_, _)
(* The number of keys of d at both levels, counted over the keys in keys *)
Entries(d, keys) ==
    IF keys = {} THEN 0
    ELSE LET k == CHOOSE k \in keys : TRUE
         IN  1 + (IF IsDict(d[k]) THEN Cardinality(DOMAIN d[k].d) ELSE 0)
               + Entries(d, keys \ {k})

Dicts ==
    {d \in UNION {[S -> MetaValues] : S \in SUBSET TopKeys} :
        Entries(d, DOMAIN d) <= MaxEntries} \cup {ExampleD1, ExampleD2}

InitMerge ==
    /\ MainIdle
    /\ stack = <<>> /\ exc = "none" /\ left = None
    /\ call = None /\ log = <<>>
    /\ d1 \in Dicts /\ d2 \in Dicts /\ merged = None
    /\ args = None /\ workers = <<>>

(* mergedicts(d1, d2): merged is d1 after the call; d1 and d2 stay the *)
(* arguments as they were passed                                       *)
Merge ==
    /\ merged = None
    /\ merged' = Some(mergedicts(d1, d2))
    /\ UNCHANGED <<args, workers, config, disk, pc, _name, _metadata, _models, Sources_models,
                   cwd, fs, ret, stack, exc, left, call, log, d1, d2>>

NextMerge == Merge

SpecMerge == InitMerge /\ [][NextMerge]_vars

----------------------------------------------------------------------------
(* The reduction of the longitude axis, on the values of a raw variable *)
(* along its longitudes at one point (lat, [plev,] time)                *)

(* A data value: NaN, or the quotient num / den *)
NaN == [nan |-> TRUE, num |-> 0, den |-> 1, exp |-> 0, dtype |-> "float64"]
Number(n) == [nan |-> FALSE, num |-> n, den |-> 1, exp |-> 0, dtype |-> "float64"]
Numbers == {Number(n) : n \in 0 .. MaxValue}

RECURSIVE gcd(_, _)
gcd(a, b) == IF b = 0 THEN a ELSE gcd(b, a % b)

(* One record for one number: the fraction in lowest terms, 0 as 0 / 1 *)
lowest(value) ==
    IF value.nan THEN value
    ELSE LET g == gcd(value.num, value.den)
         IN  [value EXCEPT !.num = @ \div g, !.den = @ \div g]

RECURSIVE nansum(_, _)
(* The sum of the values from longitude i on that are not NaN *)
nansum(values, i) ==
    IF i > Len(values) THEN 0
    ELSE (IF values[i].nan THEN 0 ELSE values[i].num) + nansum(values, i + 1)

(* DataArray.mean(dim) along the longitudes: NaN is skipped (skipna is the *)
(* default for floats); the mean of no value is NaN                       *)
mean_values(values) ==
    LET valid == {i \in 1 .. Len(values) : ~values[i].nan}
    IN  IF valid = {} THEN NaN
        ELSE lowest([nan |-> FALSE, num |-> nansum(values, 1),
                     den |-> Cardinality(valid), exp |-> 0,
                     dtype |-> "float64"])

(* dataset.sel(lon=dataset.lon[0]): the value at the first longitude *)
sel_first(values) == values[1]

(* The longitude axis of a variable: whether it is still there, and the *)
(* values along it (one value where it is gone)                         *)
Along(lon, values) == [lon |-> lon, values |-> values]

(* sources.py Model.__get_tco3_zm: dataset.mean(dim='lon') *)
get_tco3_zm_values(values) == Returned(Along(FALSE, <<mean_values(values)>>))

(* operations.lon_mean: dataset.cf.mean("longitude") *)
lon_mean_values(values) == Returned(Along(FALSE, <<mean_values(values)>>))

(* loadfunctions_tco3/CCMI-1_NIWA.load_tco3: the open fails where no file *)
(* matches; then line 27 calls utils.delete_non_CFConvention_attributes, *)
(* which utils.py does not define, and the attribute lookup ends the     *)
(* call. The value is the variable as it is then, with its longitude     *)
(* axis: no statement of load_tco3 reduces it                            *)
load_tco3_values(collection) ==
    IF ~collection.files THEN Raised("OSError")
    ELSE RaisedWith("AttributeError", Along(TRUE, collection.values))

(* o3skim.settings.VMRO3_UNITS_CONVERSION: the divisor of each raw unit *)
CONVERSION ==
    [unit \in {"mol mol-1", "ppmv"} |->
        IF unit = "mol mol-1" THEN 1 ELSE 1000000]

(* value /= divisor *)
divide(value, divisor) ==
    IF value.nan THEN value ELSE lowest([value EXCEPT !.den = @ * divisor])

RECURSIVE normalize(_, _, _)
(* a / b = (a' / b') * 2^e' with b' <= a' < 2 b', for a, b > 0 *)
normalize(a, b, e) ==
    IF a < b THEN normalize(2 * a, b, e - 1)
    ELSE IF a >= 2 * b THEN normalize(a, 2 * b, e + 1)
    ELSE <<a, b, e>>

RECURSIVE mantissa(_, _, _, _)
(* k more binary digits of the quotient under mantissa m, remainder r *)
mantissa(m, r, b, k) ==
    IF k = 0 THEN <<m, r>>
    ELSE IF 2 * r >= b THEN mantissa(2 * m + 1, 2 * r - b, b, k - 1)
    ELSE mantissa(2 * m, 2 * r, b, k - 1)

(* .astype('float32'): the value of MantissaBits binary digits nearest to *)
(* num / den, ties to the even mantissa; it is num * 2^exp                *)
astype_float32(value) ==
    IF value.nan THEN [NaN EXCEPT !.dtype = "float32"]
    ELSE IF value.num = 0 THEN [Number(0) EXCEPT !.dtype = "float32"]
    ELSE LET n == normalize(value.num, value.den, 0)
             q == mantissa(1, n[1] - n[2], n[2], MantissaBits - 1)
             up == \/ 2 * q[2] > n[2]
                   \/ 2 * q[2] = n[2] /\ q[1] % 2 = 1
             m == IF up THEN q[1] + 1 ELSE q[1]
             over == m = 2 ^ MantissaBits
         IN  [nan |-> FALSE,
              num |-> IF over THEN 2 ^ (MantissaBits - 1) ELSE m,
              den |-> 1,
              exp |-> (IF over THEN n[3] + 1 ELSE n[3]) - (MantissaBits - 1),
              dtype |-> "float32"]

(* The collection load_zmo3 opens: whether a file matches the paths,    *)
(* whether it holds lon_bnds, the unit of the variable and its values   *)
(* along the longitudes                                                 *)
Collection(files, lon_bnds, units, values) ==
    [files |-> files, lon_bnds |-> lon_bnds, units |-> units, values |-> values]

(* loadfunctions_zmo3/CCMI-1_CHASER.load_zmo3: the error it ends with. *)
(* Where lines 28 to 45 raise nothing, line 49 calls                   *)
(* utils.drop_vars_except, which utils.py does not define, and the     *)
(* attribute lookup ends the call; the value is the variable as lines  *)
(* 31 to 45 have left it                                               *)
load_zmo3_values(collection) ==
    IF ~collection.files THEN Raised("OSError")
    ELSE IF ~collection.lon_bnds THEN Raised("ValueError")
    ELSE IF collection.units \notin DOMAIN CONVERSION THEN Raised("KeyError")
    ELSE RaisedWith("AttributeError", Along(FALSE,
            <<astype_float32(divide(sel_first(collection.values),
                                    CONVERSION[collection.units]))>>))

RawValues ==
    UNION {[1 .. n -> Numbers \cup {NaN}] : n \in 1 .. MaxLon}

RawUnits == {"mol mol-1", "ppmv", "DU"}

Collections_zmo3 ==
    {Collection(files, lon_bnds, units, values) :
        files \in BOOLEAN, lon_bnds \in BOOLEAN, units \in RawUnits,
        values \in RawValues}

InitLon ==
    /\ MainIdle
    /\ stack = <<>> /\ exc = "none" /\ left = None
    /\ call = None /\ log = <<>>
    /\ d1 = EmptyDict /\ d2 = EmptyDict /\ merged = None
    /\ args \in {Some(collection) : collection \in Collections_zmo3}
    /\ workers = <<>>

Adapted(adapter, r) ==
    /\ pc = "utils"
    /\ ret' = [op |-> adapter, raised |-> r.raised, kind |-> r.kind,
               value |-> r.value]
    /\ UNCHANGED <<args, workers, config, disk, pc, _name, _metadata, _models,
                   Sources_models, cwd, fs, stack, exc, left, call, log,
                   d1, d2, merged>>

(* The mean of sources.py and of operations.py, on a collection that opens *)
Get_tco3_zm ==
    args[1].files /\ Adapted("get_tco3_zm", get_tco3_zm_values(args[1].values))

Lon_mean ==
    args[1].files /\ Adapted("lon_mean", lon_mean_values(args[1].values))

Load_tco3 == Adapted("load_tco3", load_tco3_values(args[1]))

Load_zmo3 == Adapted("load_zmo3", load_zmo3_values(args[1]))

NextLon == Get_tco3_zm \/ Lon_mean \/ Load_tco3 \/ Load_zmo3

SpecLon == InitLon /\ [][NextLon]_vars

----------------------------------------------------------------------------
(* operations.py *)

(* A total ozone dataset: one variable over lon, lat, time. An attribute *)
(* value is the sequence of the strings that '+=' has joined            *)
Toz(name, attrs, time) ==
    [attrs |-> EmptyDict,
     vars |-> [v \in {name} |-> [dims |-> {"lon", "lat", "time"}, attrs |-> attrs]],
     time |-> time]

TozNames == {"toz", "toz_zm"}
TozAttrs ==
    {[k \in {"units"} |-> <<"DU">>],
     [k \in {"units", "cell_methods"} |-> IF k = "units" THEN <<"DU">>
                                          ELSE <<"time: mean">>]}
TozDatasets ==
    {Toz(name, attrs, time) : name \in TozNames, attrs \in TozAttrs, time \in Axes}

(* The dimension of a CF axis name *)
cf_dim(key) == IF key = "longitude" THEN "lon"
               ELSE IF key = "latitude" THEN "lat" ELSE key

(* dataset.cf.mean(key), attrs kept (xr.set_options(keep_attrs=True)) *)
cf_mean(dataset, key) == mean(dataset, cf_dim(key), TRUE)

(* dataset['toz_zm'].attrs['cell_methods'] += method *)
cell_methods_patch(dataset, method) ==
    IF "toz_zm" \notin DOMAIN dataset.vars
    THEN RaisedWith("KeyError", "toz_zm")
    ELSE IF "cell_methods" \notin DOMAIN dataset.vars["toz_zm"].attrs
    THEN RaisedWith("KeyError", "cell_methods")
    ELSE Returned([dataset EXCEPT !.vars["toz_zm"].attrs["cell_methods"] =
                                      Append(@, method)])

lon_mean(dataset) ==
    Bind(cf_mean(dataset, "longitude"), LAMBDA reduced :
    cell_methods_patch(reduced, " longitude: mean"))

lat_mean(dataset) ==
    Bind(cf_mean(dataset, "latitude"), LAMBDA reduced :
    cell_methods_patch(reduced, " latitude: mean"))

(* operations.run *)
run(dataset, operation) ==
    IF operation = "lon_mean" THEN lon_mean(dataset)
    ELSE IF operation = "lat_mean" THEN lat_mean(dataset)
    ELSE RaisedWith("KeyError", <<"Bad selected operation: ", operation>>)

Operations == {"lon_mean", "lat_mean", "year_mean", "decade_mean"}

InitOps ==
    /\ MainIdle
    /\ stack = <<>> /\ exc = "none" /\ left = None
    /\ call = None /\ log = <<>>
    /\ d1 = EmptyDict /\ d2 = EmptyDict /\ merged = None
    /\ args \in {Some([dataset |-> dataset, operation |-> operation]) :
                    dataset \in TozDatasets, operation \in Operations}
    /\ workers = <<>>

(* operations.run(dataset, operation) *)
Run ==
    /\ pc = "utils"
    /\ ret.op # "run"
    /\ LET r == run(args[1].dataset, args[1].operation)
       IN  ret' = [op |-> "run", raised |-> r.raised, kind |-> r.kind,
                   value |-> r.value]
    /\ UNCHANGED <<args, workers, config, disk, pc, _name, _metadata, _models,
                   Sources_models, cwd, fs, stack, exc, left, call, log,
                   d1, d2, merged>>

NextOps == Run

SpecOps == InitOps /\ [][NextOps]_vars

----------------------------------------------------------------------------
(* Properties of Source construction and lookup *)

Entries_(c) == {c[i] : i \in 1 .. Len(c)}
Configured == Entries_(config.collections)
Listed == {models[i] : i \in 1 .. Len(models)}

EmptyDataset == [attrs |-> EmptyDict, vars |-> EmptyDict, time |-> {}]

Named(specifications, var) ==
    IF var = TCO3 THEN specifications.tco3_zm ELSE specifications.vmro3_zm

(* The adapter of var, run on its own, standardizes the variable *)
AdapterSucceeded(var, specifications) ==
    /\ Named(specifications, var) # None
    /\ ~load_variable(disk, EmptyDataset, var, Named(specifications, var)[1]).raised

SucceededVariables(specifications) ==
    {var \in Variables : AdapterSucceeded(var, specifications)}

(* The variables the Source holds for the model of that name *)
HeldVariables(model_name) ==
    UNION {DOMAIN _models[i].model.vars :
              i \in {j \in 1 .. Len(_models) : _models[j].name = model_name}}

BuildRaises(e) == _load_model_function(disk, e.specifications).raised

BuildSucceeds(e) ==
    /\ ~BuildRaises(e)
    /\ \E var \in Variables : Named(e.specifications, var) # None

(* C1: after construction a model is listed in Source.models if and only *)
(* if at least one of its canonical variables was standardized           *)
(* successfully.                                                         *)
C1_ListedIffSomeAdapterSucceeded ==
    pc = "ready" =>
        \A e \in Configured :
            e.name \in Listed <=> SucceededVariables(e.specifications) # {}

(* C2: an error in the build of one model never makes the construction   *)
(* raise; the model is left out, and every model of the configuration    *)
(* whose build raises nothing and names a variable is listed, in the     *)
(* order of the configuration.                                           *)
C2_BuildFailureIsContained ==
    pc # "new" =>
        /\ pc = "ready"
        /\ ret.op = "init" => ~ret.raised
        /\ \A e \in Configured :
              /\ BuildRaises(e) => e.name \notin Listed
              /\ BuildSucceeds(e) => e.name \in Listed
        /\ \A i, j \in 1 .. Len(config.collections) :
              /\ i < j
              /\ BuildSucceeds(config.collections[i])
              /\ BuildSucceeds(config.collections[j])
              => \E k, l \in 1 .. Len(models) :
                    /\ k < l
                    /\ models[k] = config.collections[i].name
                    /\ models[l] = config.collections[j].name

(* A configuration of two models was built: the build of the first one *)
(* raised, and the second one is the only model listed                 *)
C2_Witness ==
    /\ pc = "ready"
    /\ Len(config.collections) = 2
    /\ BuildRaises(config.collections[1])
    /\ BuildSucceeds(config.collections[2])
    /\ models = <<config.collections[2].name>>

(* C3: a model build holds exactly the variables whose adapters          *)
(* succeeded: a failure of one variable neither prevents nor discards    *)
(* the other.                                                            *)
C3_ModelHoldsSucceededVariables ==
    pc = "ready" =>
        \A e \in Configured :
            HeldVariables(e.name) = SucceededVariables(e.specifications)

(* The Model of sources.py, whose getters are decorated one by one, holds *)
(* exactly the variables whose getter succeeded                           *)
SourcesModelHoldsSucceededVariables ==
    Sources_models # None =>
        /\ Len(Sources_models[1]) = Len(config.collections)
        /\ \A i \in 1 .. Len(config.collections) :
              LET variables == config.collections[i].specifications
              IN  DOMAIN Sources_models[1][i].model =
                    {a \in {"_tco3_zm"} :
                        /\ variables.tco3_zm # None
                        /\ ~get_tco3_zm(disk, variables.tco3_zm[1]).raised}
                    \cup {a \in {"_vmro3_zm"} :
                        /\ variables.vmro3_zm # None
                        /\ ~get_vmro3_zm(disk, variables.vmro3_zm[1]).raised}

(* C4: a lookup by name succeeds for every name of Source.models and     *)
(* raises KeyError for every other name.                                 *)
C4_LookupFindsExactlyListed ==
    ret.op = "getitem" =>
        /\ ret.raised <=> ret.arg \notin Listed
        /\ ret.raised => ret.kind = "KeyError"

(* A model of the configuration that failed at construction was looked up *)
C4_Witness ==
    /\ ret.op = "getitem"
    /\ ret.raised
    /\ \E e \in Configured : e.name = ret.arg /\ BuildRaises(e)

----------------------------------------------------------------------------
(* Properties of utils.py *)

(* C5: whenever a utils.cd scope is left, by the end of its body, by an  *)
(* error or by an interruption, the working directory is the one in      *)
(* effect just before the scope was entered, at every level of nesting;  *)
(* once every scope is left it is the directory the program started in. *)
C5_CwdRestoredOnEveryExit ==
    /\ left # None => left[1].now = left[1].entry
    /\ pc = "utils" /\ stack = <<>> => cwd = InitialCwd

(* An inner scope whose body had changed the directory was left by an *)
(* interruption                                                       *)
C5_Witness ==
    /\ left # None
    /\ left[1].how = "interrupt"
    /\ left[1].depth = 2
    /\ left[1].moved

(* C6: a call through return_on_failure(message, default) never          *)
(* propagates an error: when the operation raises, the error is logged   *)
(* with the message and the default is returned; when it does not, its   *)
(* own result is returned and nothing is logged.                         *)
C6_WrappedCallNeverRaises ==
    call # None =>
        LET c == call[1]
        IN  /\ ~c.result.raised
            /\ c.outcome.raised =>
                  /\ c.result.value = c.default
                  /\ log = Append(c.logged, <<c.message, c.outcome.kind>>)
            /\ ~c.outcome.raised =>
                  /\ c.result.value = c.outcome.value
                  /\ log = c.logged

(* The operation was interrupted and the call returned a default that is *)
(* not None                                                              *)
C6_Witness ==
    /\ call # None
    /\ call[1].outcome.kind = "KeyboardInterrupt"
    /\ call[1].default # None
    /\ call[1].result = Returned(call[1].default)

ExampleMerged ==
    [k \in {"a", "b", "c"} |->
        IF k = "a" THEN Scalar(1)
        ELSE IF k = "c" THEN Scalar(3)
        ELSE Dict([j \in {"x", "y"} |-> IF j = "x" THEN Scalar(1) ELSE Scalar(2)])]

(* C7: mergedicts(d1, d2) leaves in d1 the deep merge: a key only in d1  *)
(* keeps its value, a key only in d2 is added, a key of both whose two   *)
(* values are mappings holds the merge of the two, any other key of both *)
(* holds d2's value; {a:1, b:{x:1}} and {b:{y:2}, c:3} give              *)
(* {a:1, b:{x:1, y:2}, c:3}.                                             *)
C7_MergeIsDeepMerge ==
    merged # None =>
        LET r == merged[1]
        IN  /\ DOMAIN r = DOMAIN d1 \cup DOMAIN d2
            /\ \A k \in DOMAIN d1 \ DOMAIN d2 : r[k] = d1[k]
            /\ \A k \in DOMAIN d2 \ DOMAIN d1 : r[k] = d2[k]
            /\ \A k \in DOMAIN d1 \cap DOMAIN d2 :
                  IF IsDict(d1[k]) /\ IsDict(d2[k])
                  THEN /\ IsDict(r[k])
                       /\ DOMAIN r[k].d = DOMAIN d1[k].d \cup DOMAIN d2[k].d
                       /\ \A j \in DOMAIN r[k].d :
                             r[k].d[j] = IF j \in DOMAIN d2[k].d
                                         THEN d2[k].d[j] ELSE d1[k].d[j]
                  ELSE r[k] = d2[k]
            /\ d1 = ExampleD1 /\ d2 = ExampleD2 => r = ExampleMerged

(* The example of the specification was merged *)
C7_Witness ==
    /\ merged = Some(ExampleMerged)
    /\ d1 = ExampleD1
    /\ d2 = ExampleD2

----------------------------------------------------------------------------
(* Properties of Source.skim *)

ModelDir(model_name) == cwd \o << <<_name, model_name>> >>

(* C8: the metadata.yaml of every skimmed model holds the deep merge of  *)
(* the source metadata with the model metadata.                          *)
C8_SidecarIsDeepMerge ==
    \A i \in 1 .. Len(_models) :
        LET file == [dir |-> ModelDir(_models[i].name),
                     name |-> <<"metadata.yaml">>]
        IN  file \in DOMAIN fs.files =>
                fs.files[file].meta =
                    mergedicts(_metadata, model_metadata(_models[i].model))

Label(groupby, t) ==
    IF groupby = "decade" THEN Year(t) - (Year(t) % 10) ELSE Year(t)

PartitionName(var, groupby, label) ==
    IF groupby = "year" THEN <<var, label, label + 1>>
    ELSE IF groupby = "decade" THEN <<var, label, label + 10>>
    ELSE <<var>>

(* The data files of a skim: one for every model, variable it holds and *)
(* label on its time axis                                               *)
ExpectedFiles(groupby) ==
    UNION {{[dir |-> ModelDir(_models[m].name),
             name |-> PartitionName(v, groupby, Label(groupby, stamp))] :
                v \in DOMAIN _models[m].model.vars,
                stamp \in _models[m].model.time} :
           m \in 1 .. Len(_models)}

DataFiles(files) == {f \in files : f.name # <<"metadata.yaml">>}

(* C9: a skim writes, for each variable of each model, exactly one file  *)
(* per partition of the time axis and no other data file: <var>.nc       *)
(* without grouping, <var>_<y>-<y+1>.nc for each calendar year y, and    *)
(* <var>_<d>-<d+10>.nc for each decade start d = year - year mod 10;     *)
(* each file holds the records of its partition and no others.           *)
C9_OneFilePerPartition ==
    ret.op = "skim" =>
        /\ DataFiles(ret.written) = ExpectedFiles(ret.arg)
        /\ \A f \in DataFiles(ret.written) :
              /\ f \in DOMAIN fs.files
              /\ fs.files[f].var = f.name[1]
              /\ ret.arg = "decade" => f.name[2] % 10 = 0
              /\ \E i \in 1 .. Len(_models) :
                    /\ f.dir = ModelDir(_models[i].name)
                    /\ fs.files[f].time =
                          IF ret.arg \in {"year", "decade"}
                          THEN {t \in _models[i].model.time :
                                   Label(ret.arg, t) = f.name[2]}
                          ELSE _models[i].model.time
                    /\ fs.files[f].time # {}

(* The 25 annual records from 2000 were skimmed by decade: the tco3_zm *)
(* files are those of 2000, 2010 and 2020                              *)
C9_Witness ==
    /\ ret.op = "skim"
    /\ ret.arg = "decade"
    /\ Len(_models) = 1
    /\ _models[1].model.time = TestAxis
    /\ {f.name : f \in {g \in ret.written : g.name[1] = TCO3}} =
          {<<TCO3, StartYear, StartYear + 10>>,
           <<TCO3, StartYear + 10, StartYear + 20>>,
           <<TCO3, StartYear + 20, StartYear + 30>>}

Axes_(var) ==
    IF var = VMRO3 THEN {"time", "lat", "plev"} ELSE {"time", "lat"}

(* C10: no variable of a standardized Model and no variable in a file    *)
(* written by skim has a longitude axis, while time and lat (and plev    *)
(* for vmro3_zm) are present.                                            *)
C10_NoLongitudeAxis ==
    /\ Sources_models # None =>
          \A i \in 1 .. Len(Sources_models[1]) :
              LET model == Sources_models[1][i].model
              IN  \A a \in DOMAIN model : \A v \in DOMAIN model[a].vars :
                      /\ "lon" \notin model[a].vars[v].dims
                      /\ Axes_(v) \subseteq model[a].vars[v].dims
    /\ \A i \in 1 .. Len(_models) : \A v \in DOMAIN _models[i].model.vars :
          /\ "lon" \notin _models[i].model.vars[v].dims
          /\ Axes_(v) \subseteq _models[i].model.vars[v].dims
    /\ \A f \in DOMAIN fs.files :
          fs.files[f].kind = "nc" =>
              /\ "lon" \notin fs.files[f].dims
              /\ Axes_(fs.files[f].var) \subseteq fs.files[f].dims

(* Both variables are held by a Model and were written by a skim by *)
(* decade                                                           *)
C10_Witness ==
    /\ Sources_models # None
    /\ \E i \in 1 .. Len(Sources_models[1]) :
          DOMAIN Sources_models[1][i].model = {"_tco3_zm", "_vmro3_zm"}
    /\ ret.op = "skim"
    /\ ret.arg = "decade"
    /\ \E f, g \in ret.written : f.name[1] = TCO3 /\ g.name[1] = VMRO3

Sidecar(dir) == [dir |-> dir, name |-> <<"metadata.yaml">>]

(* C11: skimming a model writes metadata.yaml into the output directory  *)
(* if and only if the metadata handed to _skim is a non-empty mapping,   *)
(* for every groupby; the file then holds that mapping.                  *)
C11_SidecarIffMetadata ==
    ret.op = "_skim" =>
        /\ Sidecar(cwd) \in ret.written <=> ret.arg.metadata # EmptyDict
        /\ Sidecar(cwd) \in ret.written =>
              fs.files[Sidecar(cwd)] = Yaml(ret.arg.metadata)

(* A skim by decade with the metadata {} wrote data files and no sidecar, *)
(* and no sidecar was there from before                                  *)
C11_Witness ==
    /\ ret.op = "_skim"
    /\ ret.arg.delta = "decade"
    /\ ret.arg.metadata = EmptyDict
    /\ ret.written # {}
    /\ Sidecar(cwd) \notin DOMAIN fs.files

Adapters == {"get_tco3_zm", "lon_mean", "load_tco3", "load_zmo3"}

(* value is the arithmetic mean of the values that are not NaN *)
IsMeanOf(value, values) ==
    LET valid == {i \in 1 .. Len(values) : ~values[i].nan}
    IN  IF valid = {} THEN value.nan
        ELSE /\ ~value.nan
             /\ value.num * Cardinality(valid) = nansum(values, 1) * value.den

(* The variable of the adapter is without its longitude axis and holds *)
(* the mean over the longitudes: as it is, or for load_zmo3 divided by *)
(* the divisor of the unit and stored in single precision             *)
TookLongitudeMean ==
    /\ ~ret.value.lon
    /\ IF ret.op = "load_zmo3"
       THEN ret.value.values[1] =
               astype_float32(divide(mean_values(args[1].values),
                                     CONVERSION[args[1].units]))
       ELSE IsMeanOf(ret.value.values[1], args[1].values)

(* C12: every standardization adapter gives, at each point, the mean of *)
(* the raw values over every longitude, not the value at one longitude: *)
(* whenever an adapter has come to hold the variable (it returned it,   *)
(* or held it when the call ended), the variable is that mean.          *)
C12_AdaptersTakeLongitudeMean ==
    ret.op \in Adapters /\ ret.value # None => TookLongitudeMean

(* The adapters of sources.py and of operations.py do take the mean *)
MeanAdaptersTakeLongitudeMean ==
    ret.op \in {"get_tco3_zm", "lon_mean"} => ~ret.raised /\ TookLongitudeMean

(* load_zmo3 holds the value at the first longitude, converted, and *)
(* load_tco3 the values at every longitude, when the lookup of a    *)
(* function that utils.py does not define ends them                 *)
OtherAdaptersKeepSingleLongitudes ==
    /\ ret.op \in {"load_zmo3", "load_tco3"} =>
          /\ ret.raised
          /\ ret.value # None <=> ret.kind = "AttributeError"
    /\ ret.op = "load_zmo3" /\ ret.value # None =>
          /\ ~ret.value.lon
          /\ ret.value.values[1] =
                astype_float32(divide(args[1].values[1],
                                      CONVERSION[args[1].units]))
    /\ ret.op = "load_tco3" /\ ret.value # None =>
          ret.value.lon /\ ret.value.values = args[1].values

----------------------------------------------------------------------------
(* Properties of the built models *)

(* The specification a listed model was built from *)
SpecificationsOf(model_name) ==
    (CHOOSE e \in Configured : e.name = model_name).specifications

(* The attributes of the raw variable that standardization keeps *)
KeptAttrs(var) ==
    LET raw == IF var = TCO3 THEN RawTCO3({}).vars["toz"]
               ELSE RawVMRO3({}).vars["o3"]
    IN  Restrict(raw.attrs, Whitelist)

Holds(attrs, d) == \A k \in DOMAIN d : k \in DOMAIN attrs /\ attrs[k] = d[k]

(* C13: after a model build the attribute block of each loaded variable *)
(* holds the whitelisted attributes of the raw variable and the         *)
(* metadata the specification gives for the variable.                   *)
C13_AttrsKeepWhitelistAndMetadata ==
    \A i \in 1 .. Len(_models) :
        \A var \in DOMAIN _models[i].model.vars :
            LET attrs == _models[i].model.vars[var].attrs
                vspec == SpecificationsOf(_models[i].name)[var][1]
            IN  /\ Holds(attrs, KeptAttrs(var))
                /\ Holds(attrs, get(vspec, "metadata", EmptyDict))

(* The metadata of the specification is attached *)
BuiltAttrsHoldMetadata ==
    \A i \in 1 .. Len(_models) :
        \A var \in DOMAIN _models[i].model.vars :
            Holds(_models[i].model.vars[var].attrs,
                  get(SpecificationsOf(_models[i].name)[var][1],
                      "metadata", EmptyDict))

(* C14: a constructed Source is immutable: after any skim calls and      *)
(* lookups its name and metadata are those given to the constructor and *)
(* its models, with their metadata, are those the construction built.   *)
C14_SourceIsImmutable ==
    pc = "ready" =>
        /\ _name = config.name
        /\ _metadata = config.metadata
        /\ _models = SourceLoop(disk, config.collections, 1).value

(* A model whose metadata shares a nested key with the source metadata was *)
(* skimmed with two groupings and then looked up                           *)
C14_Witness ==
    /\ pc = "ready"
    /\ ret.op = "getitem" /\ ~ret.raised
    /\ _metadata = ExampleD1
    /\ \E i \in 1 .. Len(_models) :
          /\ _models[i].model.attrs = ExampleD2
          /\ {<<VMRO3>>, <<VMRO3, StartYear, StartYear + 1>>} \subseteq
                {f.name : f \in {g \in DOMAIN fs.files :
                                    g.dir = ModelDir(_models[i].name)}}

----------------------------------------------------------------------------
(* Properties of operations.run *)

(* The dataset has the variable toz_zm with a cell_methods attribute *)
Patchable(dataset) ==
    /\ "toz_zm" \in DOMAIN dataset.vars
    /\ "cell_methods" \in DOMAIN dataset.vars["toz_zm"].attrs

Reduced(dataset, result, dim) ==
    /\ DOMAIN result.vars = DOMAIN dataset.vars
    /\ \A v \in DOMAIN result.vars :
          result.vars[v].dims = dataset.vars[v].dims \ {dim}
    /\ result.time = dataset.time

BadOperation(operation) ==
    /\ ret.raised
    /\ ret.kind = "KeyError"
    /\ ret.value = <<"Bad selected operation: ", operation>>

(* lon_mean and lat_mean reduce their axis; a name that is none of the *)
(* three operations raises a KeyError that names it                    *)
RunKnowsLonAndLatMean ==
    ret.op = "run" =>
        LET dataset == args[1].dataset
            operation == args[1].operation
        IN  /\ operation = "lon_mean" /\ Patchable(dataset) =>
                  ~ret.raised /\ Reduced(dataset, ret.value, "lon")
            /\ operation = "lat_mean" /\ Patchable(dataset) =>
                  ~ret.raised /\ Reduced(dataset, ret.value, "lat")
            /\ operation \notin {"lon_mean", "lat_mean", "year_mean"} =>
                  BadOperation(operation)

(* C15: operations.run performs the longitudinal mean for lon_mean, the  *)
(* latitudinal mean for lat_mean and the yearly average for year_mean,  *)
(* and raises a KeyError naming the operation for any other name.       *)
C15_RunPerformsOperation ==
    /\ RunKnowsLonAndLatMean
    /\ ret.op = "run" /\ args[1].operation = "year_mean" =>
          /\ ~ret.raised
          /\ DOMAIN ret.value.vars = DOMAIN args[1].dataset.vars
          /\ Cardinality(ret.value.time) =
                Cardinality({Year(t) : t \in args[1].dataset.time})

----------------------------------------------------------------------------
(* scripts/skim_tco3.py: run_command up to the call of o3skim.process *)

StandardName == "atmosphere_mole_content_of_ozone"

(* The variables dataset.cf finds under a key: the one of that name and *)
(* those of that standard_name                                         *)
cf_names(dataset, key) ==
    {v \in DOMAIN dataset.vars :
        \/ v = key
        \/ /\ "standard_name" \in DOMAIN dataset.vars[v].attrs
           /\ dataset.vars[v].attrs["standard_name"] = <<key>>}

(* dataset.cf[[key]] *)
cf_getitem(dataset, key) ==
    IF cf_names(dataset, key) = {} THEN RaisedWith("KeyError", key)
    ELSE Returned([dataset EXCEPT !.vars =
                      [v \in cf_names(dataset, key) |-> dataset.vars[v]]])

(* dataset.cf.rename({key: new}) *)
cf_rename(dataset, key, new) ==
    LET old == cf_names(dataset, key)
    IN  [dataset EXCEPT !.vars =
            [v \in (DOMAIN dataset.vars \ old) \cup {new} |->
                IF v = new THEN dataset.vars[CHOOSE o \in old : TRUE]
                ELSE dataset.vars[v]]]

(* x in operations, operations being None or <<the list>> *)
contains(operations, x) ==
    IF operations = None
    THEN RaisedWith("TypeError", "argument of type 'NoneType' is not iterable")
    ELSE Returned(\E i \in 1 .. Len(operations[1]) : operations[1][i] = x)

(* any([x in operations for x in ['lat_mean', 'lon_mean']]) *)
any_mean(operations) ==
    LET lat == contains(operations, "lat_mean")
        lon == contains(operations, "lon_mean")
    IN  IF lat.raised THEN lat
        ELSE IF lon.raised THEN lon
        ELSE Returned(lat.value \/ lon.value)

(* run_command up to line 82: the dataset it hands to o3skim.process, or *)
(* its error                                                            *)
run_command_ozone(dataset, operations, variable_name) ==
    LET ozone == cf_getitem(dataset, variable_name)
        zonal == any_mean(operations)
    IN  IF ozone.raised THEN ozone
        ELSE IF zonal.raised THEN zonal
        ELSE IF zonal.value
        THEN Returned(cf_rename(ozone.value, variable_name, "toz_zm"))
        ELSE Returned(cf_rename(ozone.value, variable_name, "toz"))

(* o3skim.process(ozone, operations), whose code is not in the sources: *)
(* every outcome it can have, an error or a dataset of the variable    *)
(* with or without its lon and lat axes                                *)
process(ozone, operations) ==
    {Raised("Exception")} \cup
    {Returned([ozone EXCEPT !.vars =
                  [v \in DOMAIN ozone.vars |->
                      [ozone.vars[v] EXCEPT !.dims = @ \ gone]]]) :
        gone \in SUBSET {"lon", "lat"}}

(* skimmed.to_netcdf(output) in directory cur *)
to_netcdf(files, dirs, cur, skimmed, output) ==
    IF open_fails(dirs, cur, output) THEN RaisedWith("PermissionError", files)
    ELSE Returned(SetItem(files, [dir |-> cur, name |-> output],
                          NetCDF(skimmed, CHOOSE v \in DOMAIN skimmed.vars : TRUE)))

(* run_command with processed the outcome of o3skim.process: the dataset *)
(* handed to process if the call came to it, the files afterwards and    *)
(* the error that ended the call if one did                              *)
run_command(files, dirs, cur, dataset, operations, variable_name, output, processed) ==
    LET ozone == run_command_ozone(dataset, operations, variable_name)
        saved == to_netcdf(files, dirs, cur, processed.value, output)
    IN  IF ozone.raised
        THEN [raised |-> TRUE, kind |-> ozone.kind, handed |-> None,
              files |-> files]
        ELSE IF processed.raised
        THEN [raised |-> TRUE, kind |-> processed.kind,
              handed |-> Some(ozone.value), files |-> files]
        ELSE [raised |-> saved.raised, kind |-> saved.kind,
              handed |-> Some(ozone.value), files |-> saved.value]

(* The default of --output, without its .nc *)
Outputs == {<<"toz-skimmed">>}

(* The operations argument: None where no option is given, the list of *)
(* the options given, and the empty list of a direct call              *)
CommandOperations ==
    {None, Some(<<>>)}
        \cup {Some(<<a>>) : a \in {"lon_mean", "lat_mean"}}
        \cup {Some(<<a, b>>) : a, b \in {"lon_mean", "lat_mean"}}

VariableNames == {StandardName, "tco3", "toz"}

CommandDatasets ==
    {Toz(name, attrs, time) :
        name \in {"tco3", "toz"},
        attrs \in {[k \in {"units"} |-> <<"DU">>],
                   [k \in {"units", "standard_name"} |->
                       IF k = "units" THEN <<"DU">> ELSE <<StandardName>>]},
        time \in Axes}

InitCmd ==
    /\ MainIdle
    /\ stack = <<>> /\ exc = "none" /\ left = None
    /\ call = None /\ log = <<>>
    /\ d1 = EmptyDict /\ d2 = EmptyDict /\ merged = None
    /\ args \in {Some([dataset |-> dataset, operations |-> operations,
                       variable_name |-> variable_name]) :
                    dataset \in CommandDatasets,
                    operations \in CommandOperations,
                    variable_name \in VariableNames}
    /\ workers = <<>>

(* run_command(paths, operations, variable_name, **options) *)
Run_command ==
    /\ pc = "utils"
    /\ ret.op # "run_command"
    /\ \E output \in Outputs :
       LET ozone == run_command_ozone(args[1].dataset, args[1].operations,
                                      args[1].variable_name)
       IN  \E processed \in IF ozone.raised THEN {ozone}
                            ELSE process(ozone.value, args[1].operations) :
           LET r == run_command(fs.files, fs.dirs, cwd, args[1].dataset,
                                args[1].operations, args[1].variable_name,
                                output, processed)
           IN  /\ fs' = [fs EXCEPT !.files = r.files]
               /\ ret' = [op |-> "run_command", raised |-> r.raised,
                          kind |-> r.kind, handed |-> r.handed,
                          output |-> [dir |-> cwd, name |-> output]]
    /\ UNCHANGED <<args, workers, config, disk, pc, _name, _metadata, _models,
                   Sources_models, cwd, stack, exc, left, call, log,
                   d1, d2, merged>>

NextCmd == Run_command

SpecCmd == InitCmd /\ [][NextCmd]_vars

----------------------------------------------------------------------------
(* Two workers of one process, each skimming one model inside its own *)
(* utils.cd scope. The working directory is the one of the process;   *)
(* a worker takes one step for each call that reads or changes the    *)
(* working directory or the files                                     *)

Workers == {1, 2}

Other(w) == CHOOSE o \in Workers : o # w

(* The directory a worker skims into, as Source.skim names it *)
Dirname(model_name) == [root |-> "cwd", parts |-> << <<"Source", model_name>> >>]

(* A worker before its first statement: the model it skims and the *)
(* metadata it hands to _skim                                      *)
NewWorker(model_name, model, metadata) ==
    [pc |-> "start", dirname |-> Dirname(model_name), model |-> model,
     metadata |-> metadata, prevdir |-> None, reached |-> None,
     newdir |-> None, opened |-> <<>>, wrote |-> {}, kind |-> "none"]

(* The models of the workers hold tco3_zm, 'if model:' has kept them *)
WorkerModels ==
    {TestsModel(names, ShortAxis) : names \in {{TCO3}, {TCO3, VMRO3}}}

(* No metadata, and two mappings whose texts differ in length *)
WorkerMetadatas == {EmptyDict, ExampleD1, [k \in {"a"} |-> Scalar(2)]}

WorkerGroupBys == {"none", "year"}

(* No obstacle, or a directory where the first model's tco3_zm.nc goes *)
WorkerObstacles ==
    {{}, {InitialCwd \o << <<"Source", AllNames[1]>> >>,
          InitialCwd \o << <<"Source", AllNames[1]>>, <<TCO3>> >>}}

InitWorkers ==
    /\ config = [name |-> "", metadata |-> EmptyDict, collections |-> <<>>]
    /\ disk = ShortDisk
    /\ pc = "utils"
    /\ _name = "" /\ _metadata = EmptyDict /\ _models = <<>>
    /\ Sources_models = None
    /\ cwd = InitialCwd
    /\ \E obstacle \in WorkerObstacles :
          fs = [dirs |-> InitialDirs \cup obstacle, files |-> EmptyDict]
    /\ ret = Result("none", "", FALSE, "none", {})
    /\ stack = <<>> /\ exc = "none" /\ left = None
    /\ call = None /\ log = <<>>
    /\ d1 = EmptyDict /\ d2 = EmptyDict /\ merged = None
    /\ args \in {Some(groupby) : groupby \in WorkerGroupBys}
    /\ workers \in [Workers -> {NewWorker(n, model, metadata) :
                                   n \in ModelNames, model \in WorkerModels,
                                   metadata \in WorkerMetadatas}]

WorkerVarsUnchanged ==
    UNCHANGED <<args, config, disk, pc, _name, _metadata, _models,
                Sources_models, ret, stack, exc, left, call, log, d1, d2,
                merged>>

(* os.makedirs(dirname, exist_ok=True), its os.mkdir: the directory is *)
(* made in the working directory, or the path is there                 *)
Makedirs(w) ==
    /\ workers[w].pc = "start"
    /\ LET made == mkdir(fs.dirs, fs.files, cwd, workers[w].dirname)
       IN  IF made.raised
           THEN /\ workers' = [workers EXCEPT ![w].pc = "isdir"]
                /\ UNCHANGED fs
           ELSE /\ workers' = [workers EXCEPT ![w].pc = "cd"]
                /\ fs' = [fs EXCEPT !.dirs = made.value]
    /\ UNCHANGED cwd
    /\ WorkerVarsUnchanged

(* os.makedirs, after its os.mkdir raised: the error leaves skim unless *)
(* os.path.isdir(dirname) in the working directory of this moment       *)
MakedirsIsdir(w) ==
    /\ workers[w].pc = "isdir"
    /\ workers' = IF isdir(fs.dirs, cwd, workers[w].dirname)
                  THEN [workers EXCEPT ![w].pc = "cd"]
                  ELSE [workers EXCEPT ![w].pc = "failed",
                                       ![w].kind = "FileExistsError"]
    /\ UNCHANGED <<cwd, fs>>
    /\ WorkerVarsUnchanged

(* prevdir = os.getcwd() *)
GetPrevdir(w) ==
    /\ workers[w].pc = "cd"
    /\ workers' = [workers EXCEPT ![w].pc = "chdir", ![w].prevdir = cwd]
    /\ UNCHANGED <<cwd, fs>>
    /\ WorkerVarsUnchanged

(* os.chdir(os.path.expanduser(newdir)): an error leaves cd before its try *)
Chdir(w) ==
    /\ workers[w].pc = "chdir"
    /\ LET moved == chdir(cwd, fs.dirs, expanduser(workers[w].dirname))
       IN  IF moved.raised
           THEN /\ workers' = [workers EXCEPT ![w].pc = "failed",
                                              ![w].kind = moved.kind]
                /\ UNCHANGED cwd
           ELSE /\ workers' = [workers EXCEPT ![w].pc = "getcwd",
                                              ![w].reached = moved.value]
                /\ cwd' = moved.value
    /\ UNCHANGED fs
    /\ WorkerVarsUnchanged

(* newdir = os.getcwd() *)
GetNewdir(w) ==
    /\ workers[w].pc = "getcwd"
    /\ workers' = [workers EXCEPT ![w].pc = "tco3", ![w].newdir = cwd]
    /\ UNCHANGED <<cwd, fs>>
    /\ WorkerVarsUnchanged

(* xr.save_mfdataset for var in the body of the scope, one step for each *)
(* path and one for the writing: a path is resolved in the working      *)
(* directory the process has when its file is created; an error leaves  *)
(* the body for the finally clause. Without the variable the test is    *)
(* the step                                                             *)
SaveFiles(w, var, then) ==
    LET groups == skim_groups(workers[w].model, args[1])
        paths == skim_paths(groups, args[1], var)
        datasets == skim_datasets(groups, var)
        opened == workers[w].opened
        file == [dir |-> cwd, name |-> paths[Len(opened) + 1]]
        created == to_netcdf_open(fs.files, fs.dirs, cwd, paths[Len(opened) + 1])
    IN  /\ IF ~skim_holds(workers[w].model, var)
           THEN /\ workers' = [workers EXCEPT ![w].pc = then]
                /\ UNCHANGED fs
           ELSE IF Len(opened) < Len(paths)
           THEN IF created.raised
                THEN /\ workers' = [workers EXCEPT ![w].pc = "finally",
                                                   ![w].kind = created.kind,
                                                   ![w].opened = <<>>]
                     /\ UNCHANGED fs
                ELSE /\ workers' = [workers EXCEPT
                                       ![w].opened = Append(@, file),
                                       ![w].wrote = @ \cup {file}]
                     /\ fs' = [fs EXCEPT !.files = created.value]
           ELSE /\ workers' = [workers EXCEPT ![w].pc = then,
                                              ![w].opened = <<>>]
                /\ fs' = [fs EXCEPT !.files =
                             save_mfdataset_sync(@, opened, datasets)]
        /\ UNCHANGED cwd
        /\ WorkerVarsUnchanged

(* if skimmed.model.tco3: xr.save_mfdataset(...) *)
SaveTco3(w) ==
    /\ workers[w].pc = "tco3"
    /\ SaveFiles(w, TCO3, "vmro3")

(* if skimmed.model.vmro3: xr.save_mfdataset(...) *)
SaveVmro3(w) ==
    /\ workers[w].pc = "vmro3"
    /\ SaveFiles(w, VMRO3, "metadata")

(* if metadata: utils.save('metadata.yaml', metadata), its open: the  *)
(* file is made or cut to nothing in the working directory; an error *)
(* leaves the body for the finally clause                            *)
SaveMetadata(w) ==
    /\ workers[w].pc = "metadata"
    /\ LET ymlfile == [dir |-> cwd, name |-> <<"metadata.yaml">>]
           opened == save_open(fs.files, fs.dirs, cwd, ymlfile.name)
       IN  IF ~if_metadata(workers[w].metadata)
           THEN /\ workers' = [workers EXCEPT ![w].pc = "finally"]
                /\ UNCHANGED fs
           ELSE IF opened.raised
           THEN /\ workers' = [workers EXCEPT ![w].pc = "finally",
                                              ![w].kind = opened.kind]
                /\ UNCHANGED fs
           ELSE /\ workers' = [workers EXCEPT ![w].pc = "dump",
                                              ![w].opened = <<ymlfile>>,
                                              ![w].wrote = @ \cup {ymlfile}]
                /\ fs' = [fs EXCEPT !.files = opened.value]
    /\ UNCHANGED cwd
    /\ WorkerVarsUnchanged

(* utils.save, its yaml.dump: the text goes to the file that was opened *)
SaveMetadataDump(w) ==
    /\ workers[w].pc = "dump"
    /\ fs' = [fs EXCEPT !.files = yaml_dump(@, workers[w].opened[1],
                                            workers[w].metadata)]
    /\ workers' = [workers EXCEPT ![w].pc = "finally", ![w].opened = <<>>]
    /\ UNCHANGED cwd
    /\ WorkerVarsUnchanged

(* finally: os.chdir(prevdir); an error of the body then leaves the scope *)
Restore(w) ==
    /\ workers[w].pc = "finally"
    /\ cwd' = cd_exit([prevdir |-> workers[w].prevdir,
                       newdir |-> workers[w].newdir], cwd,
                      IF workers[w].kind = "none" THEN "normal" ELSE "error")
    /\ workers' = [workers EXCEPT
                      ![w].pc = IF workers[w].kind = "none" THEN "done"
                                ELSE "failed"]
    /\ UNCHANGED fs
    /\ WorkerVarsUnchanged

NextWorkers ==
    \E w \in Workers :
        \/ Makedirs(w)
        \/ MakedirsIsdir(w)
        \/ GetPrevdir(w)
        \/ Chdir(w)
        \/ GetNewdir(w)
        \/ SaveTco3(w)
        \/ SaveVmro3(w)
        \/ SaveMetadata(w)
        \/ SaveMetadataDump(w)
        \/ Restore(w)

SpecWorkers == InitWorkers /\ [][NextWorkers]_vars

----------------------------------------------------------------------------
(* Failures of writing during a skim *)

(* The partition files of the m-th model of the source *)
PartitionFiles(m, groupby) ==
    {[dir |-> ModelDir(_models[m].name),
      name |-> PartitionName(v, groupby, Label(groupby, stamp))] :
        v \in DOMAIN _models[m].model.vars, stamp \in _models[m].model.time}

(* A directory stands where file f is to be written *)
Obstructed(f) == f.dir \o <<f.name>> \in fs.dirs

PartitionObstructed(m, groupby) ==
    \E f \in PartitionFiles(m, groupby) : Obstructed(f)

(* C16: a failure creating or writing a partition file while Source.skim *)
(* processes a model is not contained: it propagates to the caller of    *)
(* skim (the call raises), the models after the failing one are not      *)
(* skimmed (no file of theirs is written, while every partition file of  *)
(* the models before it is), and the working directory is the one in     *)
(* effect before skim was called.                                        *)
C16_WriteFailurePropagates ==
    ret.op = "skim" =>
        /\ cwd = InitialCwd
        /\ (\E m \in 1 .. Len(_models) : PartitionObstructed(m, ret.arg))
              => ret.raised
        /\ ret.raised =>
              \E m \in 1 .. Len(_models) :
                 /\ \/ PartitionObstructed(m, ret.arg)
                    \/ Obstructed([dir |-> ModelDir(_models[m].name),
                                   name |-> <<"metadata.yaml">>])
                 /\ \A f \in ret.written :
                       /\ \A j \in m + 1 .. Len(_models) :
                             f.dir # ModelDir(_models[j].name)
                       /\ f.dir = ModelDir(_models[m].name) => ~Obstructed(f)
                 /\ \A j \in 1 .. m - 1 :
                       PartitionFiles(j, ret.arg) \subseteq ret.written

(* A skim of two models failed on a partition file of the first *)
C16_Witness ==
    /\ ret.op = "skim" /\ ret.raised /\ ret.kind = "PermissionError"
    /\ Len(_models) = 2
    /\ PartitionObstructed(1, ret.arg)
    /\ cwd = InitialCwd

----------------------------------------------------------------------------
(* The scoped directory change under two workers *)

(* The directory worker w means to write into *)
Target(w) == InitialCwd \o workers[w].dirname.parts

Left(w) == workers[w].pc \in {"done", "failed"}

(* C17: the scoped directory change is not safe across concurrent workers *)
(* sharing one process working directory. With two workers each running  *)
(* a skim inside its own utils.cd scope, a worker's files go where the    *)
(* working directory is at the time of the write, which is the directory *)
(* its own chdir reached unless the other worker changed directory in    *)
(* between, and the working directory after both scopes is the original  *)
(* one unless a worker took its prevdir inside the scope of the other;   *)
(* the interleaving in which a worker writes outside its own target      *)
(* directory and the working directory after both scopes have exited is  *)
(* not the original one is reachable (C17_Witness).                      *)
C17_CdUnsafeAcrossWorkers ==
    /\ \A w \in Workers :
          /\ (\E f \in workers[w].wrote : f.dir # workers[w].reached)
                => workers[Other(w)].reached # None
          /\ workers[Other(w)].pc = "start"
                => \A f \in workers[w].wrote : f.dir = Target(w)
    /\ (\A w \in Workers : Left(w)) /\ cwd # InitialCwd
          => \E w \in Workers : /\ workers[w].prevdir # None
                                /\ workers[w].prevdir # InitialCwd

(* Both scopes have exited, a worker wrote a file outside its target *)
(* directory and the working directory is not the original one       *)
C17_Witness ==
    /\ \A w \in Workers : workers[w].pc = "done"
    /\ \E w \in Workers : \E f \in workers[w].wrote : f.dir # Target(w)
    /\ cwd # InitialCwd

(* The files of one worker are in two directories: the other worker *)
(* changed directory between two writes of one _skim                *)
WorkerFilesApart ==
    \E w \in Workers : \E f, g \in workers[w].wrote : f.dir # g.dir

(* os.makedirs of a worker raised: the other worker changed directory *)
(* between its os.mkdir and its os.path.isdir                         *)
MakedirsRaised ==
    \E w \in Workers :
        workers[w].pc = "failed" /\ workers[w].kind = "FileExistsError"

(* A metadata.yaml holds the text of one worker and, after it, the rest *)
(* of the longer text of the other: both had the file open              *)
MetadataOverwritten ==
    \E f \in DOMAIN fs.files : fs.files[f].kind = "over"

----------------------------------------------------------------------------
(* The renaming of the skim_tco3 command *)

(* The dataset holds the variable the command selects *)
Selected ==
    \E v \in DOMAIN args[1].dataset.vars :
        \/ v = args[1].variable_name
        \/ /\ "standard_name" \in DOMAIN args[1].dataset.vars[v].attrs
           /\ args[1].dataset.vars[v].attrs["standard_name"]
                 = <<args[1].variable_name>>

(* The operations asked for include lon_mean or lat_mean *)
AsksZonal ==
    /\ args[1].operations # None
    /\ \E i \in 1 .. Len(args[1].operations[1]) :
          args[1].operations[1][i] \in {"lon_mean", "lat_mean"}

(* The call came to o3skim.process, with the variable under the name *)
(* the operations ask for                                            *)
RenamedAsAsked ==
    /\ ret.handed # None
    /\ DOMAIN ret.handed[1].vars = {IF AsksZonal THEN "toz_zm" ELSE "toz"}

(* C18: the skim_tco3 command renames the selected variable to 'toz_zm' *)
(* when the requested operations include lon_mean or lat_mean and to    *)
(* 'toz' in every other case, including when no operation option is     *)
(* given on the command line (operations is None), and then proceeds to *)
(* process the result and, where process returns, saves it to the       *)
(* output file.                                                         *)
C18_RenamesToTozOrTozZm ==
    ret.op = "run_command" /\ Selected =>
        /\ RenamedAsAsked
        /\ ~ret.raised => ret.output \in DOMAIN fs.files

(* Where operations is a list, empty or not, the renaming is as C18 says *)
(* and the output file is written where process and the save return     *)
RenamesWhereOperationsIsAList ==
    ret.op = "run_command" /\ Selected /\ args[1].operations # None =>
        /\ RenamedAsAsked
        /\ ~ret.raised => ret.output \in DOMAIN fs.files

(* Without an operation option the command raises TypeError before it *)
(* renames, processes or saves                                        *)
NoOptionRaisesTypeError ==
    ret.op = "run_command" /\ Selected /\ args[1].operations = None =>
        /\ ret.raised /\ ret.kind = "TypeError"
        /\ ret.handed = None
        /\ ret.output \notin DOMAIN fs.files

====
